---- MODULE Spec2Model ----
(***************************************************************************)
(* Model of the DOP learning subsystem of Genyu: the prompt record table,  *)
(* the per-model learning table, their row level security policies and the *)
(* two SQL functions of SUPABASE_SCHEMA.sql.                               *)
(*                                                                         *)
(* Real numbers are kept as integers in hundredths: a quality score or a   *)
(* similarity of 0.7 is 70, a cosine distance of 2 is 200.                 *)
(***************************************************************************)
EXTENDS Integers, Sequences, FiniteSets, TLC

(***************************************************************************)
(* Bounds of the model.                                                    *)
(***************************************************************************)
MaxRecords == 3

RecordIds == 1..MaxRecords

(***************************************************************************)
(* SQL values.  A nullable column or argument holds Null or a one-tuple    *)
(* <<v>>.  A comparison with NULL is not TRUE, so a WHERE clause drops the *)
(* row: SqlEq and SqlGe are "the comparison is TRUE".                      *)
(***************************************************************************)
Null == <<>>

Some(v) == <<v>>

Val(x) == x[1]

SqlEq(a, b) == a # Null /\ b # Null /\ Val(a) = Val(b)

SqlGe(a, b) == a # Null /\ b # Null /\ Val(a) >= Val(b)

(***************************************************************************)
(* dop_prompt_records: the columns the model reads.                        *)
(***************************************************************************)
EmbeddingDim == 768

ModelTypes == {"gemini", "imagen"}

Modes == {"character", "scene"}

DefaultAspectRatio == "16:9"

\* Mutant: a new row is approved by default.
DefaultWasApprovedTrue == Some(TRUE)

DefaultWasApproved == Some(FALSE)

DefaultQualityScore == Null

NoRecord == [absent |-> TRUE]

\* An embedding is a vector(768) whose components beyond the first two are 0.
Vec(x, y) == [dim |-> EmbeddingDim, x |-> x, y |-> y]

Dot(a, b) == a.x * b.x + a.y * b.y

Norm(a) == CHOOSE n \in 0..20 : n * n = Dot(a, a)

\* pgvector's <=> : cosine distance 1 - a.b / (|a| |b|), in hundredths.
CosineDistance(a, b) == 100 - ((100 * Dot(a, b)) \div (Norm(a) * Norm(b)))

(***************************************************************************)
(* search_similar_prompts                                                  *)
(***************************************************************************)
QualityFloor == 70

DefaultMatchCount == 5

DefaultSimilarityThreshold == 70

\* The value of the select list's "similarity" column for row r.
Similarity(r, query_embedding) == 100 - CosineDistance(Val(r.embedding), query_embedding)

\* Mutant: a was_approved that is not false passes, NULL included.
ApprovedGateNotFalse(r) == r.was_approved # Some(FALSE)

\* r.was_approved = true
ApprovedGate(r) == SqlEq(r.was_approved, Some(TRUE))

\* r.quality_score >= 0.7
QualityGate(r) == SqlGe(r.quality_score, Some(QualityFloor))

\* (match_model_type IS NULL OR r.model_type = match_model_type)
ModelTypeFilter(r, match_model_type) ==
    match_model_type = Null \/ SqlEq(Some(r.model_type), match_model_type)

\* Mutant: the IS NULL alternative is left out, so an absent filter matches nothing.
ModeFilterWithoutNull(r, match_mode) == SqlEq(Some(r.mode), match_mode)

\* (match_mode IS NULL OR r.mode = match_mode)
ModeFilter(r, match_mode) ==
    match_mode = Null \/ SqlEq(Some(r.mode), match_mode)

\* r.embedding IS NOT NULL
EmbeddingGate(r) == r.embedding # Null

\* Mutant: the rows are held to the default threshold, whatever the caller
\* asks for.
ThresholdGateDefault(r, query_embedding, similarity_threshold) ==
    /\ r.embedding # Null
    /\ 100 - CosineDistance(Val(r.embedding), query_embedding) >= DefaultSimilarityThreshold

\* Mutant: > in place of >=.
ThresholdGateStrict(r, query_embedding, similarity_threshold) ==
    /\ r.embedding # Null
    /\ 100 - CosineDistance(Val(r.embedding), query_embedding) > similarity_threshold

\* 1 - (r.embedding <=> query_embedding) >= similarity_threshold
ThresholdGate(r, query_embedding, similarity_threshold) ==
    /\ r.embedding # Null
    /\ 100 - CosineDistance(Val(r.embedding), query_embedding) >= similarity_threshold

\* The WHERE clause: the ids of the rows of the table it keeps.
SearchWhere(table, query_embedding, match_model_type, match_mode, similarity_threshold) ==
    {id \in DOMAIN table :
        /\ table[id] # NoRecord
        /\ ApprovedGate(table[id])
        /\ QualityGate(table[id])
        /\ ModelTypeFilter(table[id], match_model_type)
        /\ ModeFilter(table[id], match_mode)
        /\ EmbeddingGate(table[id])
        /\ ThresholdGate(table[id], query_embedding, similarity_threshold)}

\* Mutant: ORDER BY ... DESC, the farthest row first.
SearchOrderByDescending(table, query_embedding, order, i, j) ==
    CosineDistance(Val(table[order[i]].embedding), query_embedding)
        >= CosineDistance(Val(table[order[j]].embedding), query_embedding)

\* ORDER BY r.embedding <=> query_embedding: the sort key is the distance
\* alone, so rows at the same distance may come out in either order.
SearchOrderBy(table, query_embedding, order, i, j) ==
    CosineDistance(Val(table[order[i]].embedding), query_embedding)
        <= CosineDistance(Val(table[order[j]].embedding), query_embedding)

\* Every order of the kept rows the ORDER BY allows.
SearchOrders(table, kept, query_embedding) ==
    {order \in [1..Cardinality(kept) -> kept] :
        /\ \A i, j \in 1..Cardinality(kept) : i # j => order[i] # order[j]
        /\ \A i, j \in 1..Cardinality(kept) :
              i < j => SearchOrderBy(table, query_embedding, order, i, j)}

\* LIMIT match_count
SearchLimit(order, match_count) ==
    SubSeq(order, 1, IF match_count < Len(order) THEN match_count ELSE Len(order))

\* One returned row.
SearchRow(table, id, query_embedding) ==
    [id |-> id,
     model_type |-> table[id].model_type,
     mode |-> table[id].mode,
     quality_score |-> table[id].quality_score,
     similarity |-> Similarity(table[id], query_embedding)]

\* The result sets the function may return for one call.
search_similar_prompts(table, query_embedding, match_model_type, match_mode, match_count, similarity_threshold) ==
    LET kept == SearchWhere(table, query_embedding, match_model_type, match_mode,
                            similarity_threshold)
    IN {[i \in 1..Len(SearchLimit(order, match_count)) |->
            SearchRow(table, order[i], query_embedding)] :
        order \in SearchOrders(table, kept, query_embedding)}

(***************************************************************************)
(* get_model_best_keywords.  common_keywords is a JSONB object             *)
(* {"keyword": count}, modelled as a function from its keys to counts.     *)
(***************************************************************************)
DefaultKeywordLimit == 20

\* jsonb_object_keys(common_keywords) with the count of each key, for the
\* rows WHERE model_type = target_model_type.
KeywordRows(learnings, target_model_type) ==
    UNION {{[keyword |-> k, frequency |-> l.common_keywords[k]] :
               k \in DOMAIN l.common_keywords} :
           l \in {x \in learnings : x.model_type = target_model_type}}

\* ORDER BY k.frequency DESC: the sort key is the frequency alone, so
\* keywords of the same frequency may come out in either order.
KeywordOrderBy(order, i, j) == order[i].frequency >= order[j].frequency

\* Every order of the rows the ORDER BY allows.
KeywordOrders(rows) ==
    {order \in [1..Cardinality(rows) -> rows] :
        /\ \A i, j \in 1..Cardinality(rows) : i # j => order[i] # order[j]
        /\ \A i, j \in 1..Cardinality(rows) : i < j => KeywordOrderBy(order, i, j)}

\* LIMIT keyword_limit
KeywordLimit(order, keyword_limit) ==
    SubSeq(order, 1, IF keyword_limit < Len(order) THEN keyword_limit ELSE Len(order))

\* The sequences the function may return for one call.
get_model_best_keywords(learnings, target_model_type, keyword_limit) ==
    {KeywordLimit(order, keyword_limit) :
        order \in KeywordOrders(KeywordRows(learnings, target_model_type))}

(***************************************************************************)
(* Callers.  auth.uid() is the caller's user id (NULL without a user), and *)
(* auth.role() its role.  Table access by the service role is decided by   *)
(* the platform and not by the policies of dop_prompt_records, so the      *)
(* callers of that table are the signed-in users.                          *)
(***************************************************************************)
Users == {"u1", "u2", "a1"}

\* profiles.role: DEFAULT 'user', and 'admin' for the admin users.
ProfileRole == [u \in Users |-> IF u = "a1" THEN "admin" ELSE "user"]

UserCaller(u) == [uid |-> Some(u), role |-> "authenticated"]

ServiceCaller == [uid |-> Null, role |-> "service_role"]

\* is_admin(): EXISTS (SELECT 1 FROM profiles WHERE id = auth.uid() AND role = 'admin')
is_admin(caller, profiles) ==
    \E u \in profiles : SqlEq(Some(u), caller.uid) /\ ProfileRole[u] = "admin"

(***************************************************************************)
(* Row level security and constraints of the two DOP tables.               *)
(***************************************************************************)
\* Mutant: the policy the other tables have, auth.uid() = user_id OR is_admin().
PromptRecordPolicyOrAdmin(caller, row) ==
    SqlEq(caller.uid, row.user_id) \/ is_admin(caller, Users)

\* "Users can manage own prompt records": FOR ALL USING (auth.uid() = user_id).
\* With no WITH CHECK clause the USING expression also checks a new row.
PromptRecordPolicy(caller, row) == SqlEq(caller.uid, row.user_id)

\* "Anyone can read model learnings": FOR SELECT USING (true)
LearningsReadPolicy(caller) == TRUE

\* Mutant: FOR ALL USING (auth.role() IN ('service_role', 'authenticated')).
LearningsWritePolicyAuthenticated(caller) ==
    caller.role \in {"service_role", "authenticated"}

\* "Service role can update learnings": FOR ALL USING (auth.role() = 'service_role')
LearningsWritePolicy(caller) == caller.role = "service_role"

\* The rows of dop_model_learnings a caller's SELECT sees: the two policies
\* are permissive, so a row is visible if either admits it.
LearningsVisible(caller, learnings) ==
    {l \in learnings : LearningsReadPolicy(caller) \/ LearningsWritePolicy(caller)}

\* Mutant: model_type TEXT NOT NULL, without UNIQUE.
UniqueModelTypeNotEnforced(learnings, row) == TRUE

\* model_type TEXT NOT NULL UNIQUE: no stored row has the model type of the
\* new row.
UniqueModelType(learnings, row) ==
    \A l \in learnings : l.model_type # row.model_type

\* mode TEXT NOT NULL CHECK (mode IN ('character', 'scene'))
ModeCheck(mode) == mode \in Modes

\* Mutant: the column is declared vector, of any dimension.
EmbeddingCheckAnyDim(embedding) == TRUE

\* embedding vector(768): NULL, or a vector of 768 components
EmbeddingCheck(embedding) == embedding = Null \/ Val(embedding).dim = EmbeddingDim

\* The row INSERT stores for a draft: the columns the draft leaves out take
\* their DEFAULT (scores NULL, was_approved false, created_at now()).
NewPromptRecord(draft, now) ==
    [user_id |-> draft.user_id,
     model_type |-> draft.model_type,
     mode |-> draft.mode,
     aspect_ratio |-> draft.aspect_ratio,
     embedding |-> draft.embedding,
     keywords |-> draft.keywords,
     quality_score |-> DefaultQualityScore,
     full_body_score |-> Null,
     background_score |-> Null,
     face_clarity_score |-> Null,
     match_score |-> Null,
     was_approved |-> DefaultWasApproved,
     created_at |-> now]

\* Mutant: approved_count INTEGER DEFAULT 1.
NewModelLearningApprovedOne(model_type) ==
    [model_type |-> model_type,
     total_generations |-> 0,
     approved_count |-> 1,
     sum_of_quality_scores |-> 0,
     best_aspect_ratios |-> <<>>,
     common_keywords |-> <<>>]

\* The row INSERT stores in dop_model_learnings for a model type: counters
\* DEFAULT 0, histograms DEFAULT '{}'.  sum_of_quality_scores is the durable
\* sum the aggregator keeps in place of a running average.
NewModelLearning(model_type) ==
    [model_type |-> model_type,
     total_generations |-> 0,
     approved_count |-> 0,
     sum_of_quality_scores |-> 0,
     best_aspect_ratios |-> <<>>,
     common_keywords |-> <<>>]

(***************************************************************************)
(* The model learning aggregator.                                          *)
(***************************************************************************)
\* A JSONB histogram {"key": count}: one more observation of key.
Observe(histogram, key) ==
    IF key \in DOMAIN histogram
    THEN [histogram EXCEPT ![key] = @ + 1]
    ELSE histogram @@ (key :> 1)

RECURSIVE ObserveAll(_, _)
ObserveAll(histogram, keys) ==
    IF keys = {} THEN histogram
    ELSE LET k == CHOOSE x \in keys : TRUE
         IN ObserveAll(Observe(histogram, k), keys \ {k})

\* on_record_created: total_generations + 1.
CreatedDelta(learning, row) ==
    [learning EXCEPT !.total_generations = @ + 1]

\* Mutant: an approval moves the record from the generations still pending to
\* the approved ones, so total_generations goes down by one.
ApprovedDeltaMovesCount(learning, row) ==
    [learning EXCEPT
        !.approved_count = @ + 1,
        !.total_generations = @ - 1,
        !.sum_of_quality_scores = @ + (IF row.quality_score = Null THEN 0
                                       ELSE Val(row.quality_score)),
        !.best_aspect_ratios = Observe(@, row.aspect_ratio),
        !.common_keywords = ObserveAll(@, row.keywords)]

\* Mutant: an approval below the quality floor of the search is not counted:
\* neither approved_count nor the sum nor the histograms change.
ApprovedDeltaAboveFloor(learning, row) ==
    IF SqlGe(row.quality_score, Some(QualityFloor))
    THEN [learning EXCEPT
             !.approved_count = @ + 1,
             !.sum_of_quality_scores = @ + Val(row.quality_score),
             !.best_aspect_ratios = Observe(@, row.aspect_ratio),
             !.common_keywords = ObserveAll(@, row.keywords)]
    ELSE learning

\* on_record_approved: approved_count + 1, the quality score added to the
\* sum, the row's aspect ratio and keywords observed.
ApprovedDelta(learning, row) ==
    [learning EXCEPT
        !.approved_count = @ + 1,
        !.sum_of_quality_scores = @ + (IF row.quality_score = Null THEN 0
                                       ELSE Val(row.quality_score)),
        !.best_aspect_ratios = Observe(@, row.aspect_ratio),
        !.common_keywords = ObserveAll(@, row.keywords)]

\* The rows of the learnings table for a model type.
LearningRows(learnings, model_type) == {l \in learnings : l.model_type = model_type}

\* Mutant: the upsert replaces the row of the model type with a fresh one, so
\* the updates applied before are lost.
WithLearningReplaced(learnings, model_type) ==
    (learnings \ LearningRows(learnings, model_type)) \cup {NewModelLearning(model_type)}

\* First touch inserts the row of a model type; model_type TEXT NOT NULL
\* UNIQUE keeps it the only one.
WithLearning(learnings, model_type) ==
    IF LearningRows(learnings, model_type) = {}
    THEN learnings \cup {NewModelLearning(model_type)}
    ELSE learnings

\* avg_quality_score, derived at read time from the durable sum and count.
AvgQualityScore(learning) ==
    IF learning.approved_count = 0 THEN 0
    ELSE learning.sum_of_quality_scores \div learning.approved_count

\* The upsert of on_record_created, one statement.
on_record_created(learnings, row) ==
    {IF l.model_type = row.model_type THEN CreatedDelta(l, row) ELSE l :
        l \in WithLearning(learnings, row.model_type)}

\* The upsert of on_record_approved, one statement.
on_record_approved(learnings, row) ==
    {IF l.model_type = row.model_type THEN ApprovedDelta(l, row) ELSE l :
        l \in WithLearning(learnings, row.model_type)}

(***************************************************************************)
(* State.                                                                  *)
(***************************************************************************)
VARIABLES
    dop_prompt_records,   \* id -> row of public.dop_prompt_records, or NoRecord
    dop_model_learnings,  \* the rows of public.dop_model_learnings
    auth_users,           \* the rows of auth.users
    nextId,               \* the id the next inserted prompt record gets
    updateLog,            \* the aggregator updates applied so far
    lastOp,               \* the last statement or call recorded, and its outcome
    searchResult,         \* the last call of search_similar_prompts and its rows
    pendingUpdate,        \* the aggregate update in flight, not yet committed
    provider,             \* what the generation provider does when it is called
    lastTextTokenUsage,   \* window.__lastTextTokenUsage
    editorState,          \* useImageEditor: the ImageEditorState of the hook
    onSaveCallback,       \* useImageEditor: the registered save callback, or Null
    pendingOpens,         \* useImageEditor: the asynchronous opens awaiting their image
    nextImageId,          \* useImageEditor: the number the next generateId() is made of
    scenes,               \* useDirectorChat: state.scenes of the project, as it is now
    agents,               \* useDirectorChat: the status setAgentState gave each agent
    batchRunning,         \* useDirectorChat: whether the batch generation is running
    command               \* useDirectorChat: the handleCommand invocation in flight

\* The state of the client side, which no statement on the tables touches.
editorVars == <<editorState, onSaveCallback, pendingOpens, nextImageId>>

directorVars == <<scenes, agents, batchRunning, command>>

clientVars == <<provider, lastTextTokenUsage, editorVars, directorVars>>

vars == <<dop_prompt_records, dop_model_learnings, auth_users, nextId, updateLog,
          lastOp, searchResult, pendingUpdate, clientVars>>

\* A row of dop_prompt_records as the search samples use it.
PromptRecord(user_id, model_type, mode, embedding, quality_score, was_approved, created_at) ==
    [NewPromptRecord([user_id |-> Some(user_id), model_type |-> model_type,
                      mode |-> mode, aspect_ratio |-> DefaultAspectRatio,
                      embedding |-> embedding, keywords |-> {}], created_at)
        EXCEPT !.quality_score = quality_score, !.was_approved = was_approved]

NoOp == [op |-> "none"]

NoSearch == [called |-> FALSE]

NoUpdate == [stage |-> "none"]

NoProvider == [outcome |-> "none"]

\* The state useImageEditor starts with.
InitialEditorState ==
    [isOpen |-> FALSE, currentImage |-> Null, history |-> <<>>,
     isLoading |-> FALSE, error |-> Null]

\* The image editor as the hook is mounted: nothing opened, saved or pending.
EditorIdle ==
    /\ editorState = InitialEditorState
    /\ onSaveCallback = Null
    /\ pendingOpens = {}
    /\ nextImageId = 1

\* No handleCommand has been invoked yet.
NoCommand == [pc |-> "idle", n |-> 0]

\* The director chat with no project loaded and no command given.
DirectorIdle ==
    /\ scenes = <<>>
    /\ agents = [director |-> "idle", dop |-> "idle"]
    /\ batchRunning = FALSE
    /\ command = NoCommand

(***************************************************************************)
(* The search specification: search_similar_prompts is a pure function of  *)
(* the table, so the table is drawn from a bounded set of stores and the   *)
(* function is called on it with every argument of the sets below.         *)
(***************************************************************************)
SearchQueries == {Vec(3, 4)}

SearchModelTypeArgs == {Null, Some("gemini")}

SearchModeArgs == {Null, Some("scene")}

SearchCounts == (0..MaxRecords) \cup {DefaultMatchCount}

SearchThresholds == {0, 96}

\* Rows that fail one of the gates of the WHERE clause each.
GateSamples ==
    {PromptRecord("u1", "gemini", "scene", Some(Vec(3, 4)), Null, Some(TRUE), 0),
     PromptRecord("u1", "gemini", "scene", Some(Vec(3, 4)), Some(60), Some(TRUE), 0),
     PromptRecord("u1", "gemini", "scene", Some(Vec(3, 4)), Some(90), Some(FALSE), 0),
     PromptRecord("u1", "gemini", "scene", Some(Vec(3, 4)), Some(90), Null, 0),
     PromptRecord("u1", "gemini", "scene", Null, Some(90), Some(TRUE), 0)}

\* Approved rows at or above the quality floor that differ in category and in
\* similarity to the query: 1.0 (twice, at different lengths), 0.96 and 0.6.
FilterSamples ==
    {PromptRecord("u1", "gemini", "scene", Some(Vec(3, 4)), Some(QualityFloor), Some(TRUE), 0),
     PromptRecord("u1", "imagen", "scene", Some(Vec(6, 8)), Some(90), Some(TRUE), 0),
     PromptRecord("u1", "gemini", "character", Some(Vec(4, 3)), Some(90), Some(TRUE), 0),
     PromptRecord("u1", "gemini", "scene", Some(Vec(1, 0)), Some(90), Some(TRUE), 0)}

SearchSamples == GateSamples \cup FilterSamples

\* Rows are created in id order.
SearchStores ==
    {[id \in RecordIds |-> [f[id] EXCEPT !.created_at = id]] :
     f \in [RecordIds -> SearchSamples]}

SearchInit ==
    /\ dop_prompt_records \in SearchStores
    /\ dop_model_learnings = {}
    /\ auth_users = Users
    /\ nextId = MaxRecords + 1
    /\ updateLog = {}
    /\ lastOp = NoOp
    /\ searchResult = NoSearch
    /\ pendingUpdate = NoUpdate
    /\ provider = NoProvider
    /\ lastTextTokenUsage = Null
    /\ EditorIdle
    /\ DirectorIdle

\* A call reads the table and nothing else, so a second call on the same table
\* reaches no state a first call does not: one call per store is explored.
Search(query_embedding, match_model_type, match_mode, match_count, similarity_threshold) ==
    /\ searchResult = NoSearch
    /\ pendingUpdate = NoUpdate
    /\ provider = NoProvider
    /\ lastTextTokenUsage = Null
    /\ \E rows \in search_similar_prompts(dop_prompt_records, query_embedding,
                                          match_model_type, match_mode, match_count,
                                          similarity_threshold) :
          searchResult' = [called |-> TRUE,
                           query_embedding |-> query_embedding,
                           match_model_type |-> match_model_type,
                           match_mode |-> match_mode,
                           match_count |-> match_count,
                           similarity_threshold |-> similarity_threshold,
                           rows |-> rows]
    /\ UNCHANGED <<dop_prompt_records, dop_model_learnings, auth_users, nextId,
                   updateLog, lastOp,
                   pendingUpdate, clientVars>>

SearchNext ==
    \E q \in SearchQueries, mt \in SearchModelTypeArgs, mode \in SearchModeArgs,
       k \in SearchCounts, th \in SearchThresholds :
        Search(q, mt, mode, k, th)

SpecSearch == SearchInit /\ [][SearchNext]_vars

(***************************************************************************)
(* The store specification: statements on dop_prompt_records by signed-in  *)
(* users under row level security, deletion of users, and the aggregator   *)
(* updates the service role applies for created and approved records.      *)
(***************************************************************************)
MaxInserts == 2

InsertIds == 1..MaxInserts

Draft(user, model_type, mode, aspect_ratio, embedding, keywords) ==
    [user_id |-> Some(user), model_type |-> model_type, mode |-> mode,
     aspect_ratio |-> aspect_ratio, embedding |-> embedding, keywords |-> keywords]

\* Two users generating for the same model type, one of them also for another,
\* a draft whose mode is outside the closed enum, and a draft whose embedding
\* has 512 components.
Drafts ==
    {Draft("u1", "gemini", "scene", "16:9", Some(Vec(3, 4)), {"8k", "full body"}),
     Draft("u2", "gemini", "scene", "9:16", Some(Vec(4, 3)), {"8k"}),
     Draft("u1", "imagen", "character", "16:9", Some(Vec(3, 4)), {"8k"}),
     Draft("u1", "gemini", "video", "16:9", Some(Vec(3, 4)), {"8k"}),
     Draft("u1", "gemini", "scene", "16:9", Some([Vec(3, 4) EXCEPT !.dim = 512]), {"8k"})}

Evaluation(quality, others, approved) ==
    [quality_score |-> quality, full_body_score |-> others, background_score |-> others,
     face_clarity_score |-> others, match_score |-> others, was_approved |-> Some(approved)]

Evaluations ==
    {Evaluation(Some(90), Some(80), TRUE),
     Evaluation(Some(60), Null, TRUE),
     Evaluation(Some(60), Null, FALSE)}

Init ==
    /\ dop_prompt_records = [id \in RecordIds |-> NoRecord]
    /\ dop_model_learnings = {}
    /\ auth_users = Users
    /\ nextId = 1
    /\ updateLog = {}
    /\ lastOp = NoOp
    /\ searchResult = NoSearch
    /\ pendingUpdate = NoUpdate
    /\ provider = NoProvider
    /\ lastTextTokenUsage = Null
    /\ EditorIdle
    /\ DirectorIdle

\* The row's five scores and approval flag.
EvaluationOf(row) ==
    [quality_score |-> row.quality_score, full_body_score |-> row.full_body_score,
     background_score |-> row.background_score,
     face_clarity_score |-> row.face_clarity_score, match_score |-> row.match_score,
     was_approved |-> row.was_approved]

\* UPDATE ... SET the five scores and was_approved.
WithEvaluation(row, evaluation) ==
    [row EXCEPT !.quality_score = evaluation.quality_score,
                !.full_body_score = evaluation.full_body_score,
                !.background_score = evaluation.background_score,
                !.face_clarity_score = evaluation.face_clarity_score,
                !.match_score = evaluation.match_score,
                !.was_approved = evaluation.was_approved]

\* The policy admits the statement of caller on an existing row.
RowVisible(caller, row) == row # NoRecord /\ PromptRecordPolicy(caller, row)

\* The policy and the constraints admit the new row of an INSERT.
InsertAllowed(caller, row) ==
    /\ PromptRecordPolicy(caller, row)
    /\ ModeCheck(row.mode)
    /\ EmbeddingCheck(row.embedding)

OwnerOf(row) == IF row = NoRecord THEN Null ELSE row.user_id

\* append: INSERT INTO dop_prompt_records by a signed-in user.
InsertRecord(user, draft) ==
    LET caller == UserCaller(user)
        row == NewPromptRecord(draft, nextId)
        ok == InsertAllowed(caller, row)
    IN /\ user \in auth_users
       /\ nextId <= MaxInserts
       /\ dop_prompt_records' =
             IF ok THEN [dop_prompt_records EXCEPT ![nextId] = row]
             ELSE dop_prompt_records
       /\ nextId' = IF ok THEN nextId + 1 ELSE nextId
       /\ UNCHANGED <<dop_model_learnings, auth_users, updateLog, searchResult,
                   pendingUpdate, clientVars>>

\* update_evaluation: UPDATE dop_prompt_records SET scores, was_approved WHERE id = id.
UpdateEvaluation(user, id, evaluation) ==
    LET caller == UserCaller(user)
        row == dop_prompt_records[id]
        ok == RowVisible(caller, row)
    IN /\ user \in auth_users
       /\ dop_prompt_records' =
             IF ok THEN [dop_prompt_records EXCEPT ![id] = WithEvaluation(row, evaluation)]
             ELSE dop_prompt_records
       /\ UNCHANGED <<dop_model_learnings, auth_users, nextId, updateLog, searchResult,
                   pendingUpdate, clientVars>>

\* DELETE FROM dop_prompt_records WHERE id = id, by a signed-in user.
DeleteRecord(user, id) ==
    LET caller == UserCaller(user)
        row == dop_prompt_records[id]
        ok == RowVisible(caller, row)
    IN /\ user \in auth_users
       /\ dop_prompt_records' =
             IF ok THEN [dop_prompt_records EXCEPT ![id] = NoRecord]
             ELSE dop_prompt_records
       /\ UNCHANGED <<dop_model_learnings, auth_users, nextId, updateLog, searchResult,
                   pendingUpdate, clientVars>>

\* user_id UUID REFERENCES auth.users ON DELETE CASCADE: the rows of a deleted
\* user go with it.
CascadeDelete(table, user) ==
    [id \in DOMAIN table |->
        IF table[id] # NoRecord /\ SqlEq(table[id].user_id, Some(user))
        THEN NoRecord ELSE table[id]]

\* delete_by_owner: the user is removed from auth.users.
DeleteUser(user) ==
    /\ user \in auth_users
    /\ auth_users' = auth_users \ {user}
    /\ dop_prompt_records' = CascadeDelete(dop_prompt_records, user)
    /\ UNCHANGED <<dop_model_learnings, nextId, updateLog, searchResult,
                   pendingUpdate, clientVars>>

LearningCallers == {ServiceCaller, UserCaller("u1")}

\* What the log keeps of an applied update: the record and the columns of it
\* the update read.
CreatedEntry(id, row) == [op |-> "created", id |-> id, model_type |-> row.model_type]

ApprovedEntry(id, row) ==
    [op |-> "approved", id |-> id, model_type |-> row.model_type,
     quality_score |-> row.quality_score, aspect_ratio |-> row.aspect_ratio,
     keywords |-> row.keywords]

Logged(op, id) == \E e \in updateLog : e.op = op /\ e.id = id

\* on_record_created is due for a stored record not yet counted.
CreatedDue(id) ==
    /\ dop_prompt_records[id] # NoRecord
    /\ ~Logged("created", id)

\* Mutant: on_record_approved is due whenever the record is approved, counted
\* before or not.
ApprovedDueEveryTime(id) ==
    /\ dop_prompt_records[id] # NoRecord
    /\ dop_prompt_records[id].was_approved = Some(TRUE)
    /\ \E e \in updateLog : e.op = "created" /\ e.id = id

\* on_record_approved is due once per record, when it has turned approved.
ApprovedDue(id) ==
    /\ dop_prompt_records[id] # NoRecord
    /\ dop_prompt_records[id].was_approved = Some(TRUE)
    /\ Logged("created", id)
    /\ ~Logged("approved", id)

\* The aggregator counts a newly created record.
OnRecordCreated(caller, id) ==
    LET row == dop_prompt_records[id]
        ok == LearningsWritePolicy(caller)
    IN /\ CreatedDue(id)
       /\ dop_model_learnings' =
             IF ok THEN on_record_created(dop_model_learnings, row)
             ELSE dop_model_learnings
       /\ updateLog' = IF ok THEN updateLog \cup {CreatedEntry(id, row)}
                       ELSE updateLog
       /\ UNCHANGED <<dop_prompt_records, auth_users, nextId, searchResult,
                   pendingUpdate, clientVars>>

\* The aggregator counts a record that turned approved.
OnRecordApproved(caller, id) ==
    LET row == dop_prompt_records[id]
        ok == LearningsWritePolicy(caller)
    IN /\ ApprovedDue(id)
       /\ dop_model_learnings' =
             IF ok THEN on_record_approved(dop_model_learnings, row)
             ELSE dop_model_learnings
       /\ updateLog' = IF ok THEN updateLog \cup {ApprovedEntry(id, row)}
                       ELSE updateLog
       /\ UNCHANGED <<dop_prompt_records, auth_users, nextId, searchResult,
                   pendingUpdate, clientVars>>

\* The users whose statements the aggregator specification follows: the
\* owners of the drafts.
Owners == {"u1", "u2"}

Next ==
    \/ \E u \in Owners, d \in Drafts : InsertRecord(u, d) /\ UNCHANGED lastOp
    \/ \E u \in Owners, id \in InsertIds, e \in Evaluations :
          UpdateEvaluation(u, id, e) /\ UNCHANGED lastOp
    \/ \E u \in Owners, id \in InsertIds : DeleteRecord(u, id) /\ UNCHANGED lastOp
    \/ \E c \in LearningCallers, id \in InsertIds :
          OnRecordCreated(c, id) /\ UNCHANGED lastOp
    \/ \E c \in LearningCallers, id \in InsertIds :
          OnRecordApproved(c, id) /\ UNCHANGED lastOp

Spec == Init /\ [][Next]_vars

(***************************************************************************)
(* The access specification: the same statements on dop_prompt_records by  *)
(* every signed-in user, each recorded in lastOp with its outcome, and the *)
(* deletion of users.                                                      *)
(***************************************************************************)
Outcome(op, user, id, owner, error) ==
    [op |-> op, caller |-> UserCaller(user), id |-> id, owner |-> owner,
     error |-> error, ok |-> error = "none"]

\* Why an INSERT fails, if it does: the value does not fit the column type,
\* the policy turns the new row down, or the row breaks the CHECK constraint.
InsertError(caller, row) ==
    IF ~EmbeddingCheck(row.embedding) THEN "check"
    ELSE IF ~PromptRecordPolicy(caller, row) THEN "rls"
    ELSE IF ~ModeCheck(row.mode) THEN "check"
    ELSE "none"

\* Why an UPDATE or DELETE of one row touches no row, if it does.
RowError(caller, row) ==
    IF row = NoRecord THEN "not_found"
    ELSE IF ~PromptRecordPolicy(caller, row) THEN "rls"
    ELSE "none"

AccessInsert(user, draft) ==
    /\ InsertRecord(user, draft)
    /\ lastOp' = Outcome("insert", user, nextId, draft.user_id,
                         InsertError(UserCaller(user), NewPromptRecord(draft, nextId)))

AccessUpdate(user, id, evaluation) ==
    /\ UpdateEvaluation(user, id, evaluation)
    /\ lastOp' = Outcome("update", user, id, OwnerOf(dop_prompt_records[id]),
                         RowError(UserCaller(user), dop_prompt_records[id]))

AccessDelete(user, id) ==
    /\ DeleteRecord(user, id)
    /\ lastOp' = Outcome("delete", user, id, OwnerOf(dop_prompt_records[id]),
                         RowError(UserCaller(user), dop_prompt_records[id]))

AccessDeleteUser(user) ==
    /\ DeleteUser(user)
    /\ lastOp' = [op |-> "delete_user", user |-> user]

AccessNext ==
    \/ \E u \in Users, d \in Drafts : AccessInsert(u, d)
    \/ \E u \in Users, id \in InsertIds, e \in Evaluations : AccessUpdate(u, id, e)
    \/ \E u \in Users, id \in InsertIds : AccessDelete(u, id)
    \/ \E u \in Users : AccessDeleteUser(u)

SpecAccess == Init /\ [][AccessNext]_vars

(***************************************************************************)
(* Claims about search_similar_prompts, checked under SpecSearch.          *)
(***************************************************************************)
ReturnedIds == {searchResult.rows[i].id : i \in DOMAIN searchResult.rows}

\* The spec's eligibility: approved, quality at least 0.7, embedding present.
IsEligible(id) ==
    /\ dop_prompt_records[id] # NoRecord
    /\ dop_prompt_records[id].was_approved = Some(TRUE)
    /\ dop_prompt_records[id].quality_score # Null
    /\ Val(dop_prompt_records[id].quality_score) >= 70
    /\ dop_prompt_records[id].embedding # Null

MatchesSuppliedFilters(id) ==
    /\ searchResult.match_model_type # Null
          => dop_prompt_records[id].model_type = Val(searchResult.match_model_type)
    /\ searchResult.match_mode # Null
          => dop_prompt_records[id].mode = Val(searchResult.match_mode)

SimilarityToQuery(id) ==
    100 - CosineDistance(Val(dop_prompt_records[id].embedding), searchResult.query_embedding)

\* The candidates of the last call: eligible, matching the filters, at or
\* above the caller's threshold.
PassingIds ==
    {id \in RecordIds :
        /\ IsEligible(id)
        /\ MatchesSuppliedFilters(id)
        /\ SimilarityToQuery(id) >= searchResult.similarity_threshold}

\* C1: search never returns a record that is not approved, whose quality
\* score is unset or below 0.7, or whose embedding is null, whatever the
\* filters and the threshold (thresholds below 0.7 included).
C1_SearchReturnsOnlyEligible ==
    searchResult.called =>
        \A id \in ReturnedIds :
            /\ dop_prompt_records[id] # NoRecord
            /\ dop_prompt_records[id].was_approved = Some(TRUE)
            /\ dop_prompt_records[id].quality_score # Null
            /\ Val(dop_prompt_records[id].quality_score) >= 70
            /\ dop_prompt_records[id].embedding # Null

\* A call with a threshold below 0.7 that returns a row while the store also
\* holds a row failing one of the gates.
C1_Witness ==
    /\ searchResult.called
    /\ searchResult.similarity_threshold < 70
    /\ searchResult.rows # <<>>
    /\ \E id \in RecordIds :
          /\ dop_prompt_records[id] # NoRecord
          /\ ~IsEligible(id)
          /\ id \notin ReturnedIds

C5_TiesByCreationTime ==
    searchResult.called =>
        LET rows == searchResult.rows
        IN /\ \A i, j \in DOMAIN rows :
                 (i < j /\ rows[i].similarity = rows[j].similarity)
                    => dop_prompt_records[rows[i].id].created_at
                          <= dop_prompt_records[rows[j].id].created_at
           /\ \A id \in PassingIds \ ReturnedIds : \A i \in DOMAIN rows :
                 SimilarityToQuery(id) = rows[i].similarity
                    => dop_prompt_records[rows[i].id].created_at
                          <= dop_prompt_records[id].created_at

\* C6: every returned row matches each supplied filter exactly, and an
\* absent filter excludes nothing: when the result is not cut by k, every
\* eligible row at or above the threshold that matches the supplied filters
\* is returned.
C6_FiltersExactAndAbsentMatchesAll ==
    searchResult.called =>
        /\ \A i \in DOMAIN searchResult.rows :
              /\ searchResult.match_model_type # Null
                    => searchResult.rows[i].model_type = Val(searchResult.match_model_type)
              /\ searchResult.match_mode # Null
                    => searchResult.rows[i].mode = Val(searchResult.match_mode)
              /\ searchResult.rows[i].model_type
                    = dop_prompt_records[searchResult.rows[i].id].model_type
              /\ searchResult.rows[i].mode = dop_prompt_records[searchResult.rows[i].id].mode
        /\ Len(searchResult.rows) < searchResult.match_count =>
              \A id \in RecordIds :
                 (/\ IsEligible(id)
                  /\ SimilarityToQuery(id) >= searchResult.similarity_threshold
                  /\ MatchesSuppliedFilters(id)) => id \in ReturnedIds

\* One filter supplied, the other absent: rows of both model types are
\* returned and a row of the other mode is left out.
C6_Witness ==
    /\ searchResult.called
    /\ searchResult.match_model_type = Null
    /\ searchResult.match_mode = Some("scene")
    /\ \E i, j \in DOMAIN searchResult.rows :
          searchResult.rows[i].model_type # searchResult.rows[j].model_type
    /\ \E id \in RecordIds :
          /\ IsEligible(id)
          /\ dop_prompt_records[id].mode = "character"

\* C7: a row is returned only if its similarity is at least the caller's
\* threshold, and a candidate exactly at the threshold is not excluded by it.
C7_ThresholdInclusive ==
    searchResult.called =>
        /\ \A i \in DOMAIN searchResult.rows :
              /\ searchResult.rows[i].similarity >= searchResult.similarity_threshold
              /\ SimilarityToQuery(searchResult.rows[i].id)
                    >= searchResult.similarity_threshold
        /\ Len(searchResult.rows) < searchResult.match_count =>
              \A id \in RecordIds :
                 (/\ IsEligible(id)
                  /\ MatchesSuppliedFilters(id)
                  /\ SimilarityToQuery(id) = searchResult.similarity_threshold)
                    => id \in ReturnedIds

\* A returned row exactly at the threshold, and a candidate below it left out.
C7_Witness ==
    /\ searchResult.called
    /\ \E i \in DOMAIN searchResult.rows :
          searchResult.rows[i].similarity = searchResult.similarity_threshold
    /\ \E id \in RecordIds :
          /\ IsEligible(id)
          /\ MatchesSuppliedFilters(id)
          /\ SimilarityToQuery(id) < searchResult.similarity_threshold

(***************************************************************************)
(* Claims about the aggregator, checked under Spec.                        *)
(***************************************************************************)
\* C2: approved_count <= total_generations in every reachable state of every
\* ModelLearning record, whatever the interleaving of on_record_created and
\* on_record_approved calls.
C2_ApprovedAtMostTotal ==
    \A l \in dop_model_learnings : l.approved_count <= l.total_generations

\* Two generations of one model type, both counted and both approved.
C2_Witness ==
    \E l \in dop_model_learnings : l.total_generations = 2 /\ l.approved_count = 2

\* The updates of one kind applied so far for a model type.
Entries(op, model_type) ==
    {e \in updateLog : e.op = op /\ e.model_type = model_type}

RECURSIVE QualitySum(_)
QualitySum(entries) ==
    IF entries = {} THEN 0
    ELSE LET e == CHOOSE x \in entries : TRUE
         IN (IF e.quality_score = Null THEN 0 ELSE Val(e.quality_score))
            + QualitySum(entries \ {e})

ApprovedRecordIds(model_type) == {e.id : e \in Entries("approved", model_type)}

\* The quality score a record's approval was counted with.
CountedQuality(id) ==
    LET e == CHOOSE x \in updateLog : x.op = "approved" /\ x.id = id
    IN IF e.quality_score = Null THEN 0 ELSE Val(e.quality_score)

RECURSIVE CountedQualitySum(_)
CountedQualitySum(ids) ==
    IF ids = {} THEN 0
    ELSE LET id == CHOOSE x \in ids : TRUE
         IN CountedQuality(id) + CountedQualitySum(ids \ {id})

\* C9: re-applying an evaluation to a record that is already approved changes
\* nothing in the aggregate: approved_count counts each record at most once,
\* on its transition to approved, and the quality sum holds one score per
\* counted record.
C9_ApprovalCountedOncePerRecord ==
    \A l \in dop_model_learnings :
        /\ l.approved_count = Cardinality(ApprovedRecordIds(l.model_type))
        /\ l.sum_of_quality_scores = CountedQualitySum(ApprovedRecordIds(l.model_type))

\* A record counted as approved with one score has since been evaluated again,
\* approved, with another score.
C9_Witness ==
    \E e \in updateLog :
        /\ e.op = "approved"
        /\ dop_prompt_records[e.id] # NoRecord
        /\ dop_prompt_records[e.id].was_approved = Some(TRUE)
        /\ dop_prompt_records[e.id].quality_score # e.quality_score
        /\ \E l \in dop_model_learnings :
              l.model_type = e.model_type /\ l.approved_count = 1

\* Every key of the histogram is still there, with a count at least as high.
HistogramGrown(old, new) ==
    \A k \in DOMAIN old : k \in DOMAIN new /\ new[k] >= old[k]

\* C11: the counters of a ModelLearning record never decrease: in every step
\* the row of each model type is still there and its total_generations, its
\* approved_count and every count of its keyword and aspect-ratio histograms
\* are at least what they were.
C11_CountersMonotone ==
    [][\A l \in dop_model_learnings :
          \E n \in dop_model_learnings' :
             /\ n.model_type = l.model_type
             /\ n.total_generations >= l.total_generations
             /\ n.approved_count >= l.approved_count
             /\ HistogramGrown(l.common_keywords, n.common_keywords)
             /\ HistogramGrown(l.best_aspect_ratios, n.best_aspect_ratios)]_vars

\* A row whose counters and histograms have all been incremented: two
\* generations counted, one of them approved, its aspect ratio and keywords
\* observed once.
C11_Witness ==
    \E l \in dop_model_learnings :
        /\ l.total_generations = 2
        /\ l.approved_count = 1
        /\ \E a \in DOMAIN l.best_aspect_ratios : l.best_aspect_ratios[a] = 1
        /\ \E k \in DOMAIN l.common_keywords : l.common_keywords[k] = 1

(***************************************************************************)
(* Claims about access to dop_prompt_records, checked under SpecAccess.    *)
(***************************************************************************)
\* The record has been evaluated: update_evaluation has set its scores.
Evaluated(row) == row # NoRecord /\ row.quality_score # Null

\* The step changes the scores or the approval flag of an evaluated record.
Remutates(id) ==
    /\ Evaluated(dop_prompt_records[id])
    /\ dop_prompt_records'[id] # NoRecord
    /\ EvaluationOf(dop_prompt_records'[id]) # EvaluationOf(dop_prompt_records[id])

\* C8 as stated: once a record has been evaluated, no operation of any caller
\* changes its scores or its approval flag again.
C8_NeverRemutated ==
    [][\A id \in InsertIds : ~Remutates(id)]_vars

\* C8 as amended: once a record has been evaluated, only an update by the
\* user who owns it changes its scores or its approval flag; the store does
\* not block the owner's second update.
C8_RemutatedOnlyByOwner ==
    [][\A id \in InsertIds :
          Remutates(id) =>
             /\ lastOp'.op = "update"
             /\ lastOp'.id = id
             /\ lastOp'.ok
             /\ lastOp'.caller.uid = dop_prompt_records[id].user_id]_vars

\* Another user's update of an evaluated record has just been turned down.
C8_Witness ==
    /\ lastOp.op = "update"
    /\ lastOp.error = "rls"
    /\ Evaluated(dop_prompt_records[lastOp.id])

\* C10: a write or delete of a PromptRecord succeeds if and only if the
\* caller is the record's owner or holds the admin role (statements that name
\* no stored row or break a column constraint aside).
C10_OwnerOrPrivilegedWrites ==
    (lastOp.op \in {"insert", "update", "delete"} /\ lastOp.error \in {"none", "rls"})
        => (lastOp.ok <=> (\/ SqlEq(lastOp.caller.uid, lastOp.owner)
                           \/ is_admin(lastOp.caller, auth_users)))


(***************************************************************************)
(* The read specification: search_similar_prompts and                      *)
(* get_model_best_keywords are pure functions of the two tables, so the    *)
(* tables are drawn from bounded sets and the functions called on them.    *)
(***************************************************************************)
MaxFrequency == 2

\* The keywords of the sampled histograms, in lexicographic order.
Keywords == <<"8k", "full body", "hdr">>

KeywordSet == {Keywords[i] : i \in DOMAIN Keywords}

\* The JSONB object that holds the keywords counted at least once.
HistogramOf(counts) ==
    [k \in {x \in DOMAIN counts : counts[x] > 0} |-> counts[k]]

\* The highest count of the histogram.
MostFrequent(histogram) ==
    IF DOMAIN histogram = {} THEN 0
    ELSE CHOOSE n \in 0..(MaxFrequency + 1) :
            /\ \A k \in DOMAIN histogram : histogram[k] <= n
            /\ \E k \in DOMAIN histogram : histogram[k] = n

\* A learning row after as many approvals as its most frequent keyword has
\* been observed, each of a generation of quality 0.9 at the default aspect
\* ratio.
LearningWith(model_type, common_keywords) ==
    LET n == MostFrequent(common_keywords)
    IN [NewModelLearning(model_type) EXCEPT
           !.total_generations = n,
           !.approved_count = n,
           !.sum_of_quality_scores = 90 * n,
           !.best_aspect_ratios =
               IF n = 0 THEN <<>> ELSE (DefaultAspectRatio :> n),
           !.common_keywords = common_keywords]

\* No row at all, or the row of one model type with some keyword histogram;
\* the other model type has no row.
ReadLearnings ==
    {{}} \cup {{LearningWith("gemini", HistogramOf(counts))} :
                  counts \in [KeywordSet -> 0..MaxFrequency]}

\* Eligible rows at similarity 1.0 and 0.96 to the query.
ReadSamples ==
    {PromptRecord("u1", "gemini", "scene", Some(Vec(3, 4)), Some(90), Some(TRUE), 0),
     PromptRecord("u1", "gemini", "scene", Some(Vec(4, 3)), Some(90), Some(TRUE), 0)}

ReadStores ==
    {[id \in RecordIds |-> [f[id] EXCEPT !.created_at = id]] :
     f \in [RecordIds -> ReadSamples]}

ReadThresholds == {DefaultSimilarityThreshold, 99}

ReadLimits == {1, 2, DefaultKeywordLimit}

ReadInit ==
    /\ dop_prompt_records \in ReadStores
    /\ dop_model_learnings \in ReadLearnings
    /\ auth_users = Users
    /\ nextId = MaxRecords + 1
    /\ updateLog = {}
    /\ lastOp = NoOp
    /\ searchResult = NoSearch
    /\ pendingUpdate = NoUpdate
    /\ provider = NoProvider
    /\ lastTextTokenUsage = Null
    /\ EditorIdle
    /\ DirectorIdle

\* A call of get_model_best_keywords and the rows it returned.
GetModelBestKeywords(target_model_type, keyword_limit) ==
    /\ \E rows \in get_model_best_keywords(dop_model_learnings, target_model_type,
                                           keyword_limit) :
          lastOp' = [op |-> "get_model_best_keywords",
                     target_model_type |-> target_model_type,
                     keyword_limit |-> keyword_limit,
                     rows |-> rows]
    /\ UNCHANGED <<dop_prompt_records, dop_model_learnings, auth_users, nextId,
                   updateLog, searchResult,
                   pendingUpdate, clientVars>>

ReadNext ==
    \/ \E q \in SearchQueries, th \in ReadThresholds : Search(q, Null, Null, 2, th)
    \/ \E mt \in ModelTypes, limit \in ReadLimits : GetModelBestKeywords(mt, limit)

SpecRead == ReadInit /\ [][ReadNext]_vars

(***************************************************************************)
(* Claims about the two read functions, checked under SpecRead.            *)
(***************************************************************************)
\* The position of a keyword in lexicographic order.
KeywordRank(keyword) == CHOOSE i \in DOMAIN Keywords : Keywords[i] = keyword

\* The keyword histogram of the model type of the last call.
HistogramRead ==
    LET rows == LearningRows(dop_model_learnings, lastOp.target_model_type)
    IN IF rows = {} THEN <<>> ELSE (CHOOSE l \in rows : TRUE).common_keywords

\* C13: get_best_keywords returns at most limit (keyword, frequency) pairs of
\* the model type's histogram, by frequency descending, keywords of equal
\* frequency in lexicographic order, so that the result is one fixed sequence.
C13_KeywordsByFrequencyThenKeyword ==
    lastOp.op = "get_model_best_keywords" =>
        LET rows == lastOp.rows
        IN /\ Len(rows) <= lastOp.keyword_limit
           /\ \A i \in DOMAIN rows :
                 /\ rows[i].keyword \in DOMAIN HistogramRead
                 /\ rows[i].frequency = HistogramRead[rows[i].keyword]
           /\ \A i, j \in DOMAIN rows :
                 i < j =>
                    \/ rows[i].frequency > rows[j].frequency
                    \/ /\ rows[i].frequency = rows[j].frequency
                       /\ KeywordRank(rows[i].keyword) < KeywordRank(rows[j].keyword)

\* What the function does guarantee: at most limit pairs of the histogram, no
\* pair twice, by frequency descending, none left out that is more frequent
\* than a returned one.
KeywordsByFrequency ==
    lastOp.op = "get_model_best_keywords" =>
        LET rows == lastOp.rows
            n == Cardinality(DOMAIN HistogramRead)
        IN /\ Len(rows) = (IF lastOp.keyword_limit < n THEN lastOp.keyword_limit ELSE n)
           /\ \A i \in DOMAIN rows :
                 /\ rows[i].keyword \in DOMAIN HistogramRead
                 /\ rows[i].frequency = HistogramRead[rows[i].keyword]
           /\ \A i, j \in DOMAIN rows :
                 i < j => /\ rows[i].frequency >= rows[j].frequency
                          /\ rows[i].keyword # rows[j].keyword
           /\ \A k \in DOMAIN HistogramRead :
                 (\A i \in DOMAIN rows : rows[i].keyword # k) =>
                    \A i \in DOMAIN rows : rows[i].frequency >= HistogramRead[k]

\* C19: a search in which no eligible record reaches the threshold returns
\* the empty sequence, and so does get_best_keywords for a model type that
\* has no learning row: an ordinary result, with both tables left as they
\* were.
C19_EmptyResultsAreNormal ==
    /\ (searchResult.called /\ PassingIds = {}) => searchResult.rows = <<>>
    /\ (/\ lastOp.op = "get_model_best_keywords"
        /\ \A l \in dop_model_learnings : l.model_type # lastOp.target_model_type)
          => lastOp.rows = <<>>

\* Both cases at once: a store of eligible records searched at threshold 0.99
\* with k = 2, none reaching it, and the keywords of a model type without a
\* learning row asked for while another model type has one.
C19_Witness ==
    /\ searchResult.called
    /\ searchResult.similarity_threshold = 99
    /\ searchResult.match_count = 2
    /\ \A id \in RecordIds : IsEligible(id)
    /\ searchResult.rows = <<>>
    /\ lastOp.op = "get_model_best_keywords"
    /\ lastOp.target_model_type = "imagen"
    /\ dop_model_learnings # {}
    /\ lastOp.rows = <<>>

(***************************************************************************)
(* The update specification: the aggregate update of one approval event as *)
(* a transaction on the row of the model type.  It takes the row, applies  *)
(* the counter delta and then the histogram delta to its own working copy, *)
(* and either commits the copy or is aborted at any point; until it ends   *)
(* no other update of the same row proceeds.                               *)
(***************************************************************************)
\* The working copy with only the counters of the full delta applied.
WithCounters(work, target) ==
    [work EXCEPT !.total_generations = target.total_generations,
                 !.approved_count = target.approved_count,
                 !.sum_of_quality_scores = target.sum_of_quality_scores]

\* The row of the model type is held by the update in flight.
Locked(model_type) ==
    pendingUpdate # NoUpdate /\ pendingUpdate.base.model_type = model_type

\* Mutant: an aborted update leaves its working copy in the table.
AbortedLearningsPartial(learnings, pending) ==
    (learnings \ {pending.base}) \cup {pending.work}

\* The table after the update in flight is aborted: the working copy is
\* dropped.
AbortedLearnings(learnings, pending) == learnings

\* The table after the update in flight commits.
CommittedLearnings(learnings, pending) ==
    (learnings \ {pending.base}) \cup {pending.work}

\* on_record_approved begins for a record that turned approved.
BeginApproved(caller, id) ==
    LET row == dop_prompt_records[id]
    IN /\ pendingUpdate = NoUpdate
       /\ ApprovedDue(id)
       /\ LearningsWritePolicy(caller)
       /\ \E base \in LearningRows(dop_model_learnings, row.model_type) :
             pendingUpdate' = [stage |-> "begun", id |-> id, row |-> row,
                               base |-> base, work |-> base]
       /\ UNCHANGED <<dop_prompt_records, dop_model_learnings, auth_users, nextId,
                      updateLog, lastOp, searchResult, clientVars>>

\* approved_count and sum_of_quality_scores are updated in the working copy.
ApplyCounters ==
    /\ pendingUpdate.stage = "begun"
    /\ pendingUpdate' =
          [pendingUpdate EXCEPT
              !.stage = "counters",
              !.work = WithCounters(@, ApprovedDelta(pendingUpdate.base,
                                                     pendingUpdate.row))]
    /\ UNCHANGED <<dop_prompt_records, dop_model_learnings, auth_users, nextId,
                   updateLog, lastOp, searchResult, clientVars>>

\* The two histograms are updated in the working copy.
ApplyHistograms ==
    /\ pendingUpdate.stage = "counters"
    /\ pendingUpdate' =
          [pendingUpdate EXCEPT
              !.stage = "histograms",
              !.work = ApprovedDelta(pendingUpdate.base, pendingUpdate.row)]
    /\ UNCHANGED <<dop_prompt_records, dop_model_learnings, auth_users, nextId,
                   updateLog, lastOp, searchResult, clientVars>>

\* The update commits: the working copy becomes the row.
CommitApproved ==
    /\ pendingUpdate.stage = "histograms"
    /\ dop_model_learnings' = CommittedLearnings(dop_model_learnings, pendingUpdate)
    /\ updateLog' = updateLog \cup {ApprovedEntry(pendingUpdate.id, pendingUpdate.row)}
    /\ pendingUpdate' = NoUpdate
    /\ UNCHANGED <<dop_prompt_records, auth_users, nextId, lastOp, searchResult,
                   clientVars>>

\* The update fails or is aborted, at whatever stage it is.
AbortApproved ==
    /\ pendingUpdate # NoUpdate
    /\ dop_model_learnings' = AbortedLearnings(dop_model_learnings, pendingUpdate)
    /\ lastOp' = [op |-> "aggregate_aborted", stage |-> pendingUpdate.stage]
    /\ pendingUpdate' = NoUpdate
    /\ UNCHANGED <<dop_prompt_records, auth_users, nextId, updateLog, searchResult,
                   clientVars>>

\* The generations of the update specification: those of one model type.
UpdateDrafts == {d \in Drafts : d.model_type = "gemini"}

UpdateNext ==
    \/ \E u \in Owners, d \in UpdateDrafts : InsertRecord(u, d) /\ UNCHANGED lastOp
    \/ \E u \in Owners, id \in InsertIds :
          UpdateEvaluation(u, id, Evaluation(Some(90), Some(80), TRUE))
             /\ UNCHANGED lastOp
    \/ \E id \in InsertIds :
          /\ dop_prompt_records[id] # NoRecord
          /\ ~Locked(dop_prompt_records[id].model_type)
          /\ OnRecordCreated(ServiceCaller, id)
          /\ UNCHANGED lastOp
    \/ \E id \in InsertIds : BeginApproved(ServiceCaller, id)
    \/ ApplyCounters
    \/ ApplyHistograms
    \/ CommitApproved
    \/ AbortApproved

SpecUpdate == Init /\ [][UpdateNext]_vars

(***************************************************************************)
(* The claim about the aggregate update, checked under SpecUpdate.         *)
(***************************************************************************)
RECURSIVE HistogramTotal(_)
HistogramTotal(histogram) ==
    IF DOMAIN histogram = {} THEN 0
    ELSE LET k == CHOOSE x \in DOMAIN histogram : TRUE
         IN histogram[k]
            + HistogramTotal([x \in DOMAIN histogram \ {k} |-> histogram[x]])

MaxGenerations == 2

AllCallers == {ServiceCaller} \cup {UserCaller(u) : u \in Users}

\* The approved generation the approving UPDATE counts.
ApprovedSample ==
    [PromptRecord("u1", "gemini", "scene", Some(Vec(3, 4)), Some(90), Some(TRUE), 0)
        EXCEPT !.keywords = {"8k"}]

LearningOutcome(op, caller, model_type, error) ==
    [op |-> op, caller |-> caller, model_type |-> model_type,
     error |-> error, ok |-> error = "none"]

\* Why an INSERT into dop_model_learnings fails, if it does.
LearningInsertError(caller, learnings, row) ==
    IF ~LearningsWritePolicy(caller) THEN "rls"
    ELSE IF ~UniqueModelType(learnings, row) THEN "unique"
    ELSE "none"

\* Why an UPDATE or DELETE WHERE model_type = ... touches no row, if it does.
LearningRowError(caller, learnings, model_type) ==
    IF LearningRows(learnings, model_type) = {} THEN "not_found"
    ELSE IF ~LearningsWritePolicy(caller) THEN "rls"
    ELSE "none"

\* INSERT INTO dop_model_learnings (model_type) VALUES (model_type)
LearningInsert(caller, model_type) ==
    LET row == NewModelLearning(model_type)
        error == LearningInsertError(caller, dop_model_learnings, row)
    IN /\ dop_model_learnings' =
             IF error = "none" THEN dop_model_learnings \cup {row}
             ELSE dop_model_learnings
       /\ lastOp' = LearningOutcome("learning_insert", caller, model_type, error)
       /\ UNCHANGED <<dop_prompt_records, auth_users, nextId, updateLog, searchResult,
                   pendingUpdate, clientVars>>

\* UPDATE dop_model_learnings SET total_generations = total_generations + 1
\* WHERE model_type = model_type
LearningCountCreated(caller, model_type) ==
    LET error == LearningRowError(caller, dop_model_learnings, model_type)
    IN /\ \A l \in LearningRows(dop_model_learnings, model_type) :
             l.total_generations < MaxGenerations
       /\ dop_model_learnings' =
             IF error = "none"
             THEN {IF l.model_type = model_type THEN CreatedDelta(l, ApprovedSample)
                   ELSE l : l \in dop_model_learnings}
             ELSE dop_model_learnings
       /\ lastOp' = LearningOutcome("learning_update", caller, model_type, error)
       /\ UNCHANGED <<dop_prompt_records, auth_users, nextId, updateLog, searchResult,
                   pendingUpdate, clientVars>>

\* UPDATE dop_model_learnings SET approved_count = approved_count + 1, ...
\* WHERE model_type = model_type, for a generation counted before.
LearningCountApproved(caller, model_type) ==
    LET error == LearningRowError(caller, dop_model_learnings, model_type)
    IN /\ \A l \in LearningRows(dop_model_learnings, model_type) :
             l.approved_count < l.total_generations
       /\ dop_model_learnings' =
             IF error = "none"
             THEN {IF l.model_type = model_type THEN ApprovedDelta(l, ApprovedSample)
                   ELSE l : l \in dop_model_learnings}
             ELSE dop_model_learnings
       /\ lastOp' = LearningOutcome("learning_update", caller, model_type, error)
       /\ UNCHANGED <<dop_prompt_records, auth_users, nextId, updateLog, searchResult,
                   pendingUpdate, clientVars>>

\* DELETE FROM dop_model_learnings WHERE model_type = model_type
LearningDelete(caller, model_type) ==
    LET error == LearningRowError(caller, dop_model_learnings, model_type)
    IN /\ dop_model_learnings' =
             IF error = "none"
             THEN dop_model_learnings \ LearningRows(dop_model_learnings, model_type)
             ELSE dop_model_learnings
       /\ lastOp' = LearningOutcome("learning_delete", caller, model_type, error)
       /\ UNCHANGED <<dop_prompt_records, auth_users, nextId, updateLog, searchResult,
                   pendingUpdate, clientVars>>

\* SELECT * FROM dop_model_learnings WHERE model_type = model_type
LearningSelect(caller, model_type) ==
    /\ lastOp' = [op |-> "learning_select", caller |-> caller,
                  model_type |-> model_type,
                  rows |-> LearningRows(LearningsVisible(caller, dop_model_learnings),
                                        model_type)]
    /\ UNCHANGED <<dop_prompt_records, dop_model_learnings, auth_users, nextId,
                   updateLog, searchResult,
                   pendingUpdate, clientVars>>

LearningsNext ==
    \/ \E c \in AllCallers, mt \in ModelTypes : LearningInsert(c, mt)
    \/ \E c \in AllCallers, mt \in ModelTypes : LearningCountCreated(c, mt)
    \/ \E c \in AllCallers, mt \in ModelTypes : LearningCountApproved(c, mt)
    \/ \E c \in AllCallers, mt \in ModelTypes : LearningDelete(c, mt)
    \/ \E c \in AllCallers, mt \in ModelTypes : LearningSelect(c, mt)

SpecLearnings == Init /\ [][LearningsNext]_vars

(***************************************************************************)
(* Claims about dop_model_learnings, checked under SpecLearnings.          *)
(***************************************************************************)
\* C17: there is never more than one ModelLearning row for a model type, also
\* when a writer's first-touch INSERT arrives after another writer's has
\* created the row.
C17_OneLearningPerModelType ==
    \A mt \in ModelTypes :
        Cardinality(LearningRows(dop_model_learnings, mt)) <= 1

\* A first-touch INSERT for a model type has just been turned down because
\* the row was there, already holding counted generations.
C17_Witness ==
    /\ lastOp.op = "learning_insert"
    /\ lastOp.error = "unique"
    /\ \E l \in dop_model_learnings :
          l.model_type = lastOp.model_type /\ l.total_generations > 0

\* C18: every caller reads every ModelLearning row, while an insert, update
\* or delete on the table succeeds only for the service role: the write of a
\* signed-in user, admin or not, fails and leaves every row as it was.
C18_ReadByAllWrittenByService ==
    [][/\ lastOp'.op = "learning_select"
            => lastOp'.rows = LearningRows(dop_model_learnings, lastOp'.model_type)
       /\ (/\ lastOp'.op \in {"learning_insert", "learning_update", "learning_delete"}
           /\ lastOp'.caller.role # "service_role")
            => (~lastOp'.ok /\ dop_model_learnings' = dop_model_learnings)
       /\ dop_model_learnings' # dop_model_learnings
            => (lastOp'.ok /\ lastOp'.caller.role = "service_role")]_vars

\* A signed-in user's update of an existing row has just been turned down.
C18_Witness ==
    /\ lastOp.op = "learning_update"
    /\ lastOp.error = "rls"
    /\ lastOp.caller.role = "authenticated"
    /\ \E l \in dop_model_learnings :
          l.model_type = lastOp.model_type /\ l.total_generations > 0

(***************************************************************************)
(* The scenario specification: five generations of one user for model type *)
(* "imagen", mode "scene", each inserted, counted, evaluated as approved   *)
(* with its score and counted as approved, in any interleaving, and the    *)
(* store searched with the eligibility gates alone (threshold 0).          *)
(***************************************************************************)
ScenarioScores == <<90, 80, 75, 60, 95>>

\* Embeddings at pairwise different similarity to the query (3, 4).
ScenarioEmbeddings == <<Vec(3, 4), Vec(4, 3), Vec(0, 1), Vec(1, 0), Vec(12, 5)>>

\* The query embedding of the scenario's search.
ScenarioQuery == Vec(3, 4)

ScenarioIds == DOMAIN ScenarioScores

ScenarioDraft(id) ==
    Draft("u1", "imagen", "scene", DefaultAspectRatio, Some(ScenarioEmbeddings[id]), {"8k"})

ScenarioEvaluation(id) == Evaluation(Some(ScenarioScores[id]), Null, TRUE)

ScenarioInit ==
    /\ dop_prompt_records = [id \in ScenarioIds |-> NoRecord]
    /\ dop_model_learnings = {}
    /\ auth_users = Users
    /\ nextId = 1
    /\ updateLog = {}
    /\ lastOp = NoOp
    /\ searchResult = NoSearch
    /\ pendingUpdate = NoUpdate
    /\ provider = NoProvider
    /\ lastTextTokenUsage = Null
    /\ EditorIdle
    /\ DirectorIdle

\* append of the next generation of the scenario.
ScenarioInsert ==
    LET row == NewPromptRecord(ScenarioDraft(nextId), nextId)
    IN /\ nextId \in ScenarioIds
       /\ InsertAllowed(UserCaller("u1"), row)
       /\ dop_prompt_records' = [dop_prompt_records EXCEPT ![nextId] = row]
       /\ nextId' = nextId + 1
       /\ UNCHANGED <<dop_model_learnings, auth_users, updateLog, lastOp, searchResult,
                   pendingUpdate, clientVars>>

ScenarioNext ==
    \/ ScenarioInsert
    \/ \E id \in ScenarioIds :
          UpdateEvaluation("u1", id, ScenarioEvaluation(id)) /\ UNCHANGED lastOp
    \/ \E id \in ScenarioIds : OnRecordCreated(ServiceCaller, id) /\ UNCHANGED lastOp
    \/ \E id \in ScenarioIds : OnRecordApproved(ServiceCaller, id) /\ UNCHANGED lastOp
    \/ Search(ScenarioQuery, Some("imagen"), Some("scene"), DefaultMatchCount, 0)

SpecScenario == ScenarioInit /\ [][ScenarioNext]_vars

(***************************************************************************)
(* The claim about the scenario, checked under SpecScenario.               *)
(***************************************************************************)
\* All five generations have been counted as created and as approved.
ScenarioDone ==
    \A id \in ScenarioIds : Logged("created", id) /\ Logged("approved", id)

ScenarioEligibleIds == {id \in ScenarioIds : IsEligible(id)}

Returned(value) == [kind |-> "return", value |-> value]

Thrown(error) == [kind |-> "throw", error |-> error]

\* String.prototype.trim on a string given as its sequence of characters.
RECURSIVE TrimStart(_)
TrimStart(str) ==
    IF str # <<>> /\ Head(str) = " " THEN TrimStart(Tail(str)) ELSE str

RECURSIVE TrimEnd(_)
TrimEnd(str) ==
    IF str # <<>> /\ str[Len(str)] = " " THEN TrimEnd(SubSeq(str, 1, Len(str) - 1))
    ELSE str

Trim(str) == TrimEnd(TrimStart(str))

ApiKeys == {<<>>, <<" ">>, <<"k">>, <<" ", "k", " ">>}

\* generateContent rejects (network, quota), or resolves with a response
\* that may hold an image part, a text and usage metadata.
ProviderErrors == {"network", "quota"}

ProviderResponses ==
    [kind : {"response"},
     inlineData : {Null, Some([mimeType |-> "image/png", data |-> "AAAA"])},
     text : {Null, Some(""), Some("ok")},
     usageMetadata : {Null, Some([promptTokenCount |-> 7, candidatesTokenCount |-> 0,
                                  totalTokenCount |-> 7])}]

GenerateContentOutcomes ==
    {[kind |-> "error", message |-> m] : m \in ProviderErrors} \cup ProviderResponses

FetchOutcomes == {"ok", "not_ok", "throws"}

\* imageContext: none, a data URL, an http URL, or a string that is neither.
ImageContexts ==
    {Null,
     Some([scheme |-> "data", mimeType |-> "image/jpeg", data |-> "BBBB"]),
     Some([scheme |-> "http", mimeType |-> "image/webp", data |-> "CCCC"]),
     Some([scheme |-> "file", mimeType |-> "image/jpeg", data |-> "DDDD"])}

ImageModels == {"gemini-3-pro-image-preview", "gemini-2.0-flash"}

\* safeGetImageData: the data of a data URL, the fetched data of an http URL,
\* null for anything else and for any failure of the fetch.
safeGetImageData(imageStr, fetch) ==
    IF imageStr = Null THEN Null
    ELSE IF Val(imageStr).scheme = "data"
         THEN Some([data |-> Val(imageStr).data, mimeType |-> Val(imageStr).mimeType])
    ELSE IF Val(imageStr).scheme = "http"
         THEN IF fetch = "ok"
              THEN Some([data |-> Val(imageStr).data, mimeType |-> Val(imageStr).mimeType])
              ELSE Null
    ELSE Null

\* The model name callGeminiAPI sends.
FinalModel(imageModel) ==
    IF imageModel = "gemini-2.0-flash"
    THEN "gemini-2.0-flash-preview-image-generation"
    ELSE imageModel

\* The parts callGeminiAPI sends: the reference image if it loaded, the prompt.
ImageParts(imageContext, fetch) ==
    LET contextData == safeGetImageData(imageContext, fetch)
    IN (IF imageContext # Null /\ contextData # Null
        THEN <<[inlineData |-> Val(contextData)]>> ELSE <<>>)
       \o <<[text |-> "prompt"]>>

\* The data URL callGeminiAPI makes of the image part of the response.
DataUrl(inlineData) ==
    [scheme |-> "data", mimeType |-> inlineData.mimeType, data |-> inlineData.data]

\* callGeminiAPI: null without a key, the image as a data URL if the response
\* has one, null if it has none, and null if anything in the try block throws.
callGeminiAPI(apiKey, outcome) ==
    IF Trim(apiKey) = <<>> THEN Returned(Null)
    ELSE IF outcome.kind = "error" THEN Returned(Null)
    ELSE IF outcome.inlineData # Null THEN Returned(Some(DataUrl(Val(outcome.inlineData))))
    ELSE Returned(Null)

\* callGeminiText: throws without a key, rethrows what generateContent throws,
\* returns response.text.
callGeminiText(apiKey, outcome) ==
    IF Trim(apiKey) = <<>> THEN Thrown("Missing API Key")
    ELSE IF outcome.kind = "error" THEN Thrown(outcome.message)
    ELSE Returned(outcome.text)

\* callGeminiVisionReasoning: as callGeminiText, returning response.text || ''.
callGeminiVisionReasoning(apiKey, outcome) ==
    IF Trim(apiKey) = <<>> THEN Thrown("Missing API Key")
    ELSE IF outcome.kind = "error" THEN Thrown(outcome.message)
    ELSE IF outcome.text = Null THEN Returned(Some(""))
    ELSE Returned(outcome.text)

\* window.__lastTextTokenUsage after callGeminiText.
TokenUsageAfter(apiKey, outcome, before) ==
    IF Trim(apiKey) # <<>> /\ outcome.kind = "response" /\ outcome.usageMetadata # Null
    THEN Some([promptTokens |-> Val(outcome.usageMetadata).promptTokenCount,
               candidateTokens |-> Val(outcome.usageMetadata).candidatesTokenCount,
               totalTokens |-> Val(outcome.usageMetadata).totalTokenCount])
    ELSE before

ProviderInit ==
    /\ dop_prompt_records = [id \in RecordIds |-> NoRecord]
    /\ dop_model_learnings = {}
    /\ auth_users = Users
    /\ nextId = 1
    /\ updateLog = {}
    /\ lastOp = NoOp
    /\ searchResult = NoSearch
    /\ pendingUpdate = NoUpdate
    /\ provider \in [generateContent : GenerateContentOutcomes, fetch : FetchOutcomes]
    /\ lastTextTokenUsage = Null
    /\ EditorIdle
    /\ DirectorIdle

\* The request generateContent got, if the wrapper came to call it.
Request(apiKey, model, parts) ==
    IF Trim(apiKey) = <<>> THEN Null ELSE Some([model |-> model, parts |-> parts])

CallGeminiAPI(apiKey, imageModel, imageContext) ==
    /\ lastOp' = [op |-> "callGeminiAPI", apiKey |-> apiKey,
                  request |-> Request(apiKey, FinalModel(imageModel),
                                      ImageParts(imageContext, provider.fetch)),
                  result |-> callGeminiAPI(apiKey, provider.generateContent)]
    /\ UNCHANGED <<dop_prompt_records, dop_model_learnings, auth_users, nextId,
                   updateLog, searchResult, pendingUpdate, clientVars>>

CallGeminiText(apiKey, model) ==
    /\ lastOp' = [op |-> "callGeminiText", apiKey |-> apiKey,
                  request |-> Request(apiKey, model, <<[text |-> "prompt"]>>),
                  result |-> callGeminiText(apiKey, provider.generateContent)]
    /\ lastTextTokenUsage' = TokenUsageAfter(apiKey, provider.generateContent,
                                             lastTextTokenUsage)
    /\ UNCHANGED <<dop_prompt_records, dop_model_learnings, auth_users, nextId,
                   updateLog, searchResult, pendingUpdate, provider,
                   editorVars, directorVars>>

CallGeminiVisionReasoning(apiKey, images) ==
    /\ lastOp' = [op |-> "callGeminiVisionReasoning", apiKey |-> apiKey,
                  request |-> Request(apiKey, "gemini-2.5-flash",
                                      <<[text |-> "prompt"]>>
                                         \o [i \in 1..Len(images) |->
                                                [inlineData |-> images[i]]]),
                  result |-> callGeminiVisionReasoning(apiKey, provider.generateContent)]
    /\ UNCHANGED <<dop_prompt_records, dop_model_learnings, auth_users, nextId,
                   updateLog, searchResult, pendingUpdate, clientVars>>

\* The image lists a vision call is made with: none, or one image.
VisionImages == {<<>>, <<[data |-> "BBBB", mimeType |-> "image/jpeg"]>>}

ProviderNext ==
    \/ \E k \in ApiKeys, m \in ImageModels, c \in ImageContexts : CallGeminiAPI(k, m, c)
    \/ \E k \in ApiKeys : CallGeminiText(k, "gemini-2.5-flash")
    \/ \E k \in ApiKeys, images \in VisionImages : CallGeminiVisionReasoning(k, images)

SpecProvider == ProviderInit /\ [][ProviderNext]_vars

(***************************************************************************)
(* The claim about the provider wrappers, checked under SpecProvider.      *)
(***************************************************************************)
\* C20: when the provider fails, the wrapper that called it surfaces the
\* failure as an error to its caller: none of callGeminiAPI, callGeminiText
\* and callGeminiVisionReasoning settles with an ordinary value then.
C20_ProviderFailureSurfaced ==
    (/\ lastOp.op \in {"callGeminiAPI", "callGeminiText", "callGeminiVisionReasoning"}
     /\ lastOp.request # Null
     /\ provider.generateContent.kind = "error")
        => lastOp.result.kind = "throw"

\* What the wrappers do guarantee: the two text wrappers reject with the
\* provider's error, and callGeminiAPI never rejects.
ProviderFailureByWrapper ==
    /\ (/\ lastOp.op \in {"callGeminiText", "callGeminiVisionReasoning"}
        /\ lastOp.request # Null
        /\ provider.generateContent.kind = "error")
          => lastOp.result = Thrown(provider.generateContent.message)
    /\ lastOp.op = "callGeminiAPI" => lastOp.result.kind = "return"

\* The draft breaks a constraint of the table: its mode is outside the closed
\* enum or its embedding has not the dimension of the column.
InvalidDraft(draft) ==
    \/ draft.mode \notin {"character", "scene"}
    \/ draft.embedding # Null /\ Val(draft.embedding).dim # EmbeddingDim

\* C14: appending a record whose mode is outside {character, scene} or whose
\* embedding has not 768 components fails, with a validation error whenever
\* the caller is the owner the draft names, and the stored records are what
\* they were before the failed append.
C14_InvalidAppendRejected ==
    [][\A u \in Users, d \in Drafts :
          (AccessInsert(u, d) /\ InvalidDraft(d)) =>
             /\ ~lastOp'.ok
             /\ dop_prompt_records' = dop_prompt_records
             /\ nextId' = nextId
             /\ PromptRecordPolicy(UserCaller(u), NewPromptRecord(d, nextId))
                   => lastOp'.error = "check"]_vars

\* The owner's append has just failed validation, in a store that holds a
\* record.
C14_Witness ==
    /\ lastOp.op = "insert"
    /\ lastOp.error = "check"
    /\ SqlEq(lastOp.caller.uid, lastOp.owner)
    /\ \E id \in InsertIds : dop_prompt_records[id] # NoRecord

\* C15: a record leaves the store only by the cascade that follows the
\* deletion of its owning user; no statement of any caller on the table
\* removes one.
C15_RemovedOnlyByCascade ==
    [][\A id \in InsertIds :
          (dop_prompt_records[id] # NoRecord /\ dop_prompt_records'[id] = NoRecord)
             => /\ lastOp'.op = "delete_user"
                /\ SqlEq(dop_prompt_records[id].user_id, Some(lastOp'.user))]_vars

(***************************************************************************)
(* The image editor: the useImageEditor hook.  Every setEditorState call   *)
(* passes an updater of the previous state, so each is an operator on      *)
(* ImageEditorState; an asynchronous open is two steps, the call up to its *)
(* await and the continuation once urlToBase64 or fileToBase64 settles.    *)
(***************************************************************************)
\* The number of images history keeps.
HistoryLimit == 50

\* Array.prototype.slice(-n): the last n elements, all of them if fewer.
SliceLast(seq, n) ==
    IF Len(seq) <= n THEN seq ELSE SubSeq(seq, Len(seq) - n + 1, Len(seq))

\* generateId(): a fresh identifier, made here of a counter.
generateId(n) == <<"img", n>>

\* An EditorImage, without the fields no operation of the hook reads.
EditorImage(id, image, source) == [id |-> id, image |-> image, source |-> source]

\* Mutant: closeEditor leaves the image in place.
closeEditorKeepsImage(prev) == [prev EXCEPT !.isOpen = FALSE, !.error = Null]

\* Mutant: addToHistory keeps every image.
addToHistoryUnbounded(prev, image) ==
    [prev EXCEPT !.history = Append(prev.history, image)]

openEditor(prev, image) ==
    [prev EXCEPT !.isOpen = TRUE, !.currentImage = Some(image), !.error = Null]

closeEditor(prev) ==
    [prev EXCEPT !.isOpen = FALSE, !.currentImage = Null, !.error = Null]

addToHistory(prev, image) ==
    [prev EXCEPT !.history = SliceLast(Append(prev.history, image), HistoryLimit)]

clearHistory(prev) == [prev EXCEPT !.history = <<>>]

\* onEditorSave: the edited copy of the current image goes to history, if
\* there is a current image, and the editor closes.
onEditorSave(prev, editedImage, id) ==
    closeEditor(IF prev.currentImage # Null
                THEN addToHistory(prev, [Val(prev.currentImage) EXCEPT
                                            !.id = id, !.image = editedImage])
                ELSE prev)

\* What onEditorSave hands to the save callback, if one is registered.
SaveCallbackArgs(prev, callback, editedImage) ==
    IF prev.currentImage # Null /\ callback # Null
    THEN Some([editedImage |-> editedImage, source |-> Val(prev.currentImage).source])
    ELSE Null

\* What an asynchronous open does before its await.
StartLoading(prev, kind) ==
    IF kind = "url" THEN [prev EXCEPT !.isLoading = TRUE, !.error = Null]
    ELSE [prev EXCEPT !.isLoading = TRUE]

\* urlToBase64 and fileToBase64 resolve with a data URL or reject with an
\* error, whose message may be empty.
LoadOutcomes == {Returned("data:image/png;base64,AAAA"), Thrown(""), Thrown("Failed to fetch")}

\* The source an asynchronous open gives its image.
OpenSource(open) ==
    IF open.kind = "url" THEN [type |-> "url", originalUrl |-> open.arg]
    ELSE IF open.kind = "gommo" THEN [type |-> "gommo", imageId |-> open.arg]
    ELSE [type |-> "upload", filename |-> open.arg]

\* openEditorWithUrl after its await: the editor opens on the loaded image,
\* or error is set; the finally block clears isLoading either way.
openEditorWithUrl(prev, open, outcome, id) ==
    [(IF outcome.kind = "return"
      THEN openEditor(prev, EditorImage(id, outcome.value, OpenSource(open)))
      ELSE [prev EXCEPT !.isLoading = FALSE,
                        !.error = Some(IF outcome.error = ""
                                       THEN "Failed to load image from URL"
                                       ELSE outcome.error)])
        EXCEPT !.isLoading = FALSE]

\* openGommoImageForEdit after its await: there is no finally block.
openGommoImageForEdit(prev, open, outcome, id) ==
    IF outcome.kind = "return"
    THEN openEditor(prev, EditorImage(id, outcome.value, OpenSource(open)))
    ELSE [prev EXCEPT !.isLoading = FALSE, !.error = Some("Failed to load Gommo image")]

\* openUploadedImageForEdit after its await: as the Gommo open.
openUploadedImageForEdit(prev, open, outcome, id) ==
    IF outcome.kind = "return"
    THEN openEditor(prev, EditorImage(id, outcome.value, OpenSource(open)))
    ELSE [prev EXCEPT !.isLoading = FALSE, !.error = Some("Failed to load uploaded file")]

\* The continuation of an asynchronous open.
Settled(prev, open, outcome, id) ==
    IF open.kind = "url" THEN openEditorWithUrl(prev, open, outcome, id)
    ELSE IF open.kind = "gommo" THEN openGommoImageForEdit(prev, open, outcome, id)
    ELSE openUploadedImageForEdit(prev, open, outcome, id)

\* The tables and the director chat, which the editor does not touch.
EditorFrame ==
    UNCHANGED <<dop_prompt_records, dop_model_learnings, auth_users, nextId, updateLog,
                searchResult, pendingUpdate, provider, lastTextTokenUsage, directorVars>>

\* openEditor, called with an image the caller made.
OpenEditor(image) ==
    /\ editorState' = openEditor(editorState, image)
    /\ lastOp' = [op |-> "openEditor"]
    /\ UNCHANGED <<onSaveCallback, pendingOpens, nextImageId>>
    /\ EditorFrame

\* openSceneForEdit, through openEditorWithBase64.
OpenSceneForEdit(sceneId, image) ==
    /\ editorState' = openEditor(editorState,
                                 EditorImage(generateId(nextImageId), image,
                                             [type |-> "scene", sceneId |-> sceneId]))
    /\ nextImageId' = nextImageId + 1
    /\ lastOp' = [op |-> "openSceneForEdit"]
    /\ UNCHANGED <<onSaveCallback, pendingOpens>>
    /\ EditorFrame

\* closeEditor; every open still awaiting its image has now seen a close.
CloseEditor ==
    /\ editorState' = closeEditor(editorState)
    /\ pendingOpens' = {[o EXCEPT !.closed = TRUE] : o \in pendingOpens}
    /\ lastOp' = [op |-> "closeEditor"]
    /\ UNCHANGED <<onSaveCallback, nextImageId>>
    /\ EditorFrame

AddToHistory(image) ==
    /\ editorState' = addToHistory(editorState, image)
    /\ nextImageId' = nextImageId + 1
    /\ lastOp' = [op |-> "addToHistory", image |-> image]
    /\ UNCHANGED <<onSaveCallback, pendingOpens>>
    /\ EditorFrame

ClearHistory ==
    /\ editorState' = clearHistory(editorState)
    /\ lastOp' = [op |-> "clearHistory"]
    /\ UNCHANGED <<onSaveCallback, pendingOpens, nextImageId>>
    /\ EditorFrame

SetOnSaveCallback(callback) ==
    /\ onSaveCallback' = Some(callback)
    /\ lastOp' = [op |-> "setOnSaveCallback"]
    /\ UNCHANGED <<editorState, pendingOpens, nextImageId>>
    /\ EditorFrame

\* onEditorSave closes the editor as closeEditor does.
OnEditorSave(editedImage) ==
    /\ editorState' = onEditorSave(editorState, editedImage, generateId(nextImageId))
    /\ nextImageId' = IF editorState.currentImage # Null THEN nextImageId + 1
                      ELSE nextImageId
    /\ pendingOpens' = {[o EXCEPT !.closed = TRUE] : o \in pendingOpens}
    /\ lastOp' = [op |-> "onEditorSave",
                  saved |-> SaveCallbackArgs(editorState, onSaveCallback, editedImage)]
    /\ UNCHANGED onSaveCallback
    /\ EditorFrame

\* An asynchronous open up to its await.
StartOpen(kind, arg) ==
    /\ [kind |-> kind, arg |-> arg, closed |-> FALSE] \notin pendingOpens
    /\ editorState' = StartLoading(editorState, kind)
    /\ pendingOpens' = pendingOpens \cup {[kind |-> kind, arg |-> arg, closed |-> FALSE]}
    /\ lastOp' = [op |-> "startOpen", kind |-> kind]
    /\ UNCHANGED <<onSaveCallback, nextImageId>>
    /\ EditorFrame

OpenEditorWithUrl(url) == StartOpen("url", url)

OpenGommoImageForEdit(imageId) == StartOpen("gommo", imageId)

OpenUploadedImageForEdit(filename) == StartOpen("upload", filename)

\* The image of an asynchronous open arrives, or its loading fails.
SettleOpen(open, outcome) ==
    /\ open \in pendingOpens
    /\ editorState' = Settled(editorState, open, outcome, generateId(nextImageId))
    /\ nextImageId' = IF outcome.kind = "return" THEN nextImageId + 1 ELSE nextImageId
    /\ pendingOpens' = pendingOpens \ {open}
    /\ lastOp' = [op |-> "settleOpen", kind |-> open.kind, closed |-> open.closed,
                  outcome |-> outcome.kind]
    /\ UNCHANGED onSaveCallback
    /\ EditorFrame

(***************************************************************************)
(* The history specification: the synchronous operations of the editor on  *)
(* one scene image, with more saves and additions than history can hold.   *)
(* An image a caller adds carries an identifier as fresh as generateId's.  *)
(***************************************************************************)
MaxImages == 52

SceneImage ==
    EditorImage(generateId(0), "data:scene", [type |-> "scene", sceneId |-> "s1"])

HistoryNext ==
    \/ OpenEditor(SceneImage)
    \/ /\ nextImageId <= MaxImages
       /\ AddToHistory(EditorImage(generateId(nextImageId), "data:edited",
                                   SceneImage.source))
    \/ ClearHistory
    \/ nextImageId <= MaxImages /\ OnEditorSave("data:edited")
    \/ CloseEditor

SpecHistory == Init /\ [][HistoryNext]_vars

(***************************************************************************)
(* The editor specification: every way of opening the editor, with the     *)
(* asynchronous opens overlapping each other, closes and saves.  A pending *)
(* load settles sooner or later, which is the fairness stated.             *)
(***************************************************************************)
MaxEditorImages == 3

\* Every pending open can still be given an identifier.
IdsLeft == nextImageId + Cardinality(pendingOpens) <= MaxEditorImages

SettleSome == \E o \in pendingOpens, outcome \in LoadOutcomes : SettleOpen(o, outcome)

EditorNext ==
    \/ IdsLeft /\ OpenSceneForEdit("s1", "data:scene")
    \/ IdsLeft /\ OpenEditorWithUrl("https://cdn/a.png")
    \/ IdsLeft /\ OpenGommoImageForEdit("g1")
    \/ IdsLeft /\ OpenUploadedImageForEdit("photo.png")
    \/ SettleSome
    \/ CloseEditor
    \/ SetOnSaveCallback("onSave")
    \/ IdsLeft /\ OnEditorSave("data:edited")

SpecEditor == Init /\ [][EditorNext]_vars /\ WF_vars(SettleSome)

(***************************************************************************)
(* The claims about the image editor.                                      *)
(***************************************************************************)
\* The last fifty elements of a sequence, in their order.
LastFifty(seq) ==
    LET n == IF Len(seq) < 50 THEN Len(seq) ELSE 50
    IN [i \in 1..n |-> seq[Len(seq) - n + i]]

\* C21: history never holds more than 50 images, and each addToHistory, called
\* directly or by onEditorSave on the edited current image, leaves history
\* equal to the last 50 elements of the previous history followed by the new
\* image, in insertion order.  Checked under SpecHistory.
C21_HistoryKeepsLastFifty ==
    /\ [](Len(editorState.history) <= 50)
    /\ [][/\ lastOp'.op = "addToHistory" =>
               editorState'.history =
                   LastFifty(editorState.history \o <<lastOp'.image>>)
          /\ (lastOp'.op = "onEditorSave" /\ editorState.currentImage # Null) =>
               /\ editorState'.history # <<>>
               /\ LET new == editorState'.history[Len(editorState'.history)]
                  IN /\ new.image = "data:edited"
                     /\ new.source = Val(editorState.currentImage).source
                     /\ new.id = generateId(nextImageId)
                     /\ editorState'.history =
                            LastFifty(editorState.history \o <<new>>)]_vars

\* history is full, its oldest images have been dropped, and another image
\* has just been added.
C21_Witness ==
    /\ Len(editorState.history) = 50
    /\ editorState.history[1].id = generateId(3)
    /\ lastOp.op \in {"addToHistory", "onEditorSave"}

\* The step is the continuation of an asynchronous open.
SettleStep == lastOp'.op = "settleOpen" /\ pendingOpens' # pendingOpens

\* C27: an open operation that sets isLoading (openEditorWithUrl,
\* openGommoImageForEdit, openUploadedImageForEdit) sets it back to false in
\* the end, whether the image loads or not.  Checked under SpecEditor, where
\* every pending load settles.
C27_LoadingEventuallyCleared == editorState.isLoading ~> ~editorState.isLoading

\* What the code does guarantee: openEditorWithUrl clears isLoading when it
\* settles, and so does a Gommo or upload open whose loading fails.
LoadingClearedByUrlOrFailure ==
    [][(SettleStep /\ (lastOp'.kind = "url" \/ lastOp'.outcome = "throw"))
          => ~editorState'.isLoading]_vars

\* C28: isOpen holds exactly when currentImage is not null, and an
\* asynchronous open whose loading fails sets error and neither opens the
\* editor nor changes currentImage.  Checked under SpecEditor.
C28_OpenIffCurrentImage ==
    /\ [](editorState.isOpen <=> editorState.currentImage # Null)
    /\ [][(SettleStep /\ lastOp'.outcome = "throw") =>
             /\ editorState'.error # Null
             /\ editorState'.isOpen = editorState.isOpen
             /\ editorState'.currentImage = editorState.currentImage]_vars

\* An asynchronous open has just failed while the editor was open on another
\* image, which it still shows.
C28_Witness ==
    /\ lastOp.op = "settleOpen"
    /\ lastOp.outcome = "throw"
    /\ editorState.isOpen
    /\ editorState.error # Null

\* C29: an asynchronous open that was started before a close and settles
\* after it neither reopens the editor nor replaces currentImage.  Checked
\* under SpecEditor.
C29_ClosedStaysClosed ==
    [][(SettleStep /\ lastOp'.closed) =>
          /\ editorState'.isOpen = editorState.isOpen
          /\ editorState'.currentImage = editorState.currentImage]_vars

(***************************************************************************)
(* The director chat: the useDirectorChat hook.  handleCommand runs up to  *)
(* each await in one step and resumes when the awaited promise settles.    *)
(* state.scenes inside the handler is the list of the render in which the  *)
(* command was given; an updater passed to updateStateAndRecord gets the   *)
(* scenes as they are when it is applied.                                  *)
(***************************************************************************)
\* A text of the provider: plain, or the JSON text of a value.
PlainText(str) == [text |-> str, json |-> Null]

JsonText(value) == [text |-> "json", json |-> Some(value)]

\* JSON.parse of response.text: throws on undefined and on a text that is
\* not JSON.
JSONParse(text) ==
    IF text = Null \/ Val(text).json = Null THEN Thrown("SyntaxError")
    ELSE Returned(Val(Val(text).json))

\* A parsed JSON value as the handler reads it: the members intent, entities
\* and response of an object, or the elements of an array.
Json(intent, entities, array) ==
    [intent |-> intent, entities |-> entities, response |-> Some("ok"), array |-> array]

\* parseInt of a sceneNumber: the number a decimal numeral denotes, NaN (Null)
\* for a string that does not start with a digit.
ParseInt(str) ==
    CASE str = "1" -> Some(1)
      [] str = "2" -> Some(2)
      [] str = "3" -> Some(3)
      [] OTHER -> Null

\* >= and <= of JavaScript numbers: false when a side is undefined or NaN.
JsGe(a, b) == a # Null /\ b # Null /\ Val(a) >= Val(b)

JsLe(a, b) == a # Null /\ b # Null /\ Val(a) <= Val(b)

\* a || b on numbers: b when a is undefined, null, NaN or 0.
JsOr(a, b) == IF a = Null \/ Val(a) = 0 THEN b ELSE a

\* Mutant: the fallback of recognizeIntent is to pause the batch.
IntentFallbackPause == Json(Some("PAUSE_BATCH"), Null, Null)

\* What recognizeIntent returns when callGeminiText or JSON.parse throws.
IntentFallback == Json(Some("PROD_Q_AND_A"), Null, Null)

\* Whether the try block of recognizeIntent throws: callGeminiText does, or
\* JSON.parse of its text.
RecognitionThrows(apiKey, outcome) ==
    \/ callGeminiText(apiKey, outcome).kind = "throw"
    \/ JSONParse(callGeminiText(apiKey, outcome).value).kind = "throw"

\* recognizeIntent: the parsed reply of the provider, or the fallback.
recognizeIntent(apiKey, outcome) ==
    IF RecognitionThrows(apiKey, outcome) THEN IntentFallback
    ELSE JSONParse(callGeminiText(apiKey, outcome).value).value

\* REGENERATE_RANGE: the ids of the scenes whose number lies in the range.
RangeTargets(stateScenes, range) ==
    LET startNum == IF range = Null THEN Null ELSE Val(range).start
        endNum == JsOr(IF range = Null THEN Null ELSE Val(range).end, startNum)
        targetScenes ==
            SelectSeq(stateScenes,
                      LAMBDA s : /\ JsGe(ParseInt(s.sceneNumber), startNum)
                                 /\ JsLe(ParseInt(s.sceneNumber), endNum))
    IN [i \in 1..Len(targetScenes) |-> targetScenes[i].id]

\* UPDATE_STYLE: the ids of the scenes without a generated image.
ScenesToUpdate(stateScenes) ==
    LET ungenerated == SelectSeq(stateScenes, LAMBDA s : s.generatedImage = Null)
    IN [i \in 1..Len(ungenerated) |-> ungenerated[i].id]

\* Array.prototype.findIndex by id: the first index, 0 for none.
FindIndex(ids, id) ==
    IF \E i \in DOMAIN ids : ids[i] = id
    THEN CHOOSE i \in DOMAIN ids : ids[i] = id /\ \A j \in 1..(i - 1) : ids[j] # id
    ELSE 0

\* Mutant: the updater of UPDATE_STYLE does not look at generatedImage.
StyleUpdaterAnyScene(s, scenesToUpdate, newPrompts) ==
    [i \in DOMAIN s |->
        IF FindIndex(scenesToUpdate, s[i].id) # 0
        THEN [s[i] EXCEPT !.contextDescription =
                              Some(newPrompts[FindIndex(scenesToUpdate, s[i].id)])]
        ELSE s[i]]

\* The updater UPDATE_STYLE passes to updateStateAndRecord.
StyleUpdater(s, scenesToUpdate, newPrompts) ==
    [i \in DOMAIN s |->
        IF s[i].generatedImage = Null /\ FindIndex(scenesToUpdate, s[i].id) # 0
        THEN [s[i] EXCEPT !.contextDescription =
                              Some(newPrompts[FindIndex(scenesToUpdate, s[i].id)])]
        ELSE s[i]]

\* Array.prototype.find by scene number or id.
FindScene(stateScenes, ref) ==
    LET found == SelectSeq(stateScenes,
                           LAMBDA s : ref # Null /\ (s.sceneNumber = Val(ref)
                                                     \/ s.id = Val(ref)))
    IN IF found = <<>> THEN Null ELSE Some(found[1])

\* Mutant: the updater of the target scene keeps its generated image.
TargetUpdaterKeepsImage(s, targetId, newPrompt) ==
    [i \in DOMAIN s |->
        IF s[i].id = targetId THEN [s[i] EXCEPT !.contextDescription = newPrompt]
        ELSE s[i]]

\* The updater MATERIAL_INHERITANCE and SYNC_AND_REGENERATE pass to
\* updateStateAndRecord.
TargetUpdater(s, targetId, newPrompt) ==
    [i \in DOMAIN s |->
        IF s[i].id = targetId
        THEN [s[i] EXCEPT !.contextDescription = newPrompt, !.generatedImage = Null]
        ELSE s[i]]

\* What one run of the switch of handleCommand does up to its first await or
\* its end: the status it gives each agent (Null: none), where it stops, the
\* calls it makes and what it keeps for its continuation.
NoEffects ==
    [director |-> Null, dop |-> Null, pc |-> "done", logs |-> 1, stop |-> FALSE,
     generate |-> Null, thrown |-> FALSE, scenesToUpdate |-> <<>>,
     source |-> Null, target |-> Null]

\* case 'REGENERATE_RANGE'; reading entities.range throws when the reply has
\* no entities.
RegenerateRange(entities, stateScenes) ==
    IF entities = Null THEN [NoEffects EXCEPT !.thrown = TRUE]
    ELSE IF RangeTargets(stateScenes, Val(entities).range) # <<>>
    THEN [NoEffects EXCEPT !.director = Some("success"),
                           !.generate = Some(RangeTargets(stateScenes,
                                                          Val(entities).range))]
    ELSE [NoEffects EXCEPT !.director = Some("error")]

\* case 'UPDATE_STYLE' up to the await of the rewrite; building the prompt
\* inside the try block throws when the reply has no entities.
UpdateStyle(entities, stateScenes) ==
    IF ScenesToUpdate(stateScenes) = <<>> THEN [NoEffects EXCEPT !.director = Some("thinking")]
    ELSE IF entities = Null THEN [NoEffects EXCEPT !.director = Some("error")]
    ELSE [NoEffects EXCEPT !.director = Some("thinking"), !.pc = "rewrite",
                           !.scenesToUpdate = ScenesToUpdate(stateScenes)]

\* case 'SYNERGY_DIRECTIVE' up to the await of the DOP's reply.
SynergyDirective(entities) ==
    IF entities = Null THEN [NoEffects EXCEPT !.thrown = TRUE]
    ELSE [NoEffects EXCEPT !.dop = Some("thinking"), !.pc = "dop"]

\* case 'MATERIAL_INHERITANCE' and case 'SYNC_AND_REGENERATE' up to the await
\* of the rewritten prompt.
InheritOrSync(entities, stateScenes) ==
    IF entities = Null
    THEN IF stateScenes = <<>> THEN [NoEffects EXCEPT !.director = Some("error"), !.logs = 0]
         ELSE [NoEffects EXCEPT !.thrown = TRUE, !.logs = 0]
    ELSE IF /\ FindScene(stateScenes, Val(entities).sourceSceneId) # Null
            /\ FindScene(stateScenes, Val(entities).targetSceneId) # Null
    THEN [NoEffects EXCEPT !.director = Some("thinking"), !.pc = "extract",
                           !.source = FindScene(stateScenes, Val(entities).sourceSceneId),
                           !.target = FindScene(stateScenes, Val(entities).targetSceneId)]
    ELSE [NoEffects EXCEPT !.director = Some("error"), !.logs = 0]

\* The switch of handleCommand on the recognized intent.
Execute(result, stateScenes) ==
    IF result.intent = Some("PAUSE_BATCH")
    THEN [NoEffects EXCEPT !.stop = TRUE, !.director = Some("success")]
    ELSE IF result.intent = Some("REGENERATE_RANGE")
    THEN RegenerateRange(result.entities, stateScenes)
    ELSE IF result.intent = Some("UPDATE_STYLE")
    THEN UpdateStyle(result.entities, stateScenes)
    ELSE IF result.intent = Some("SYNERGY_DIRECTIVE")
    THEN SynergyDirective(result.entities)
    ELSE IF result.intent \in {Some("MATERIAL_INHERITANCE"), Some("SYNC_AND_REGENERATE")}
    THEN InheritOrSync(result.entities, stateScenes)
    ELSE [NoEffects EXCEPT !.director = Some("success")]

\* setAgentState for the statuses a step gives.
AgentsAfter(before, director, dop) ==
    [director |-> IF director = Null THEN before.director ELSE Val(director),
     dop |-> IF dop = Null THEN before.dop ELSE Val(dop)]

MaxCommands == 2

\* The project a command is given in: three scenes, any of them generated,
\* the last one numbered or named.
ProjectScenes ==
    {<<[id |-> "s1", sceneNumber |-> "1", contextDescription |-> Some(PlainText("p1")),
        generatedImage |-> g1],
       [id |-> "s2", sceneNumber |-> "2", contextDescription |-> Some(PlainText("p2")),
        generatedImage |-> g2],
       [id |-> "s3", sceneNumber |-> n3, contextDescription |-> Some(PlainText("p3")),
        generatedImage |-> g3]>> :
     g1 \in {Null, Some("img")}, g2 \in {Null, Some("img")}, g3 \in {Null, Some("img")},
     n3 \in {"3", "intro"}}

DirectorInit ==
    /\ dop_prompt_records = [id \in RecordIds |-> NoRecord]
    /\ dop_model_learnings = {}
    /\ auth_users = Users
    /\ nextId = 1
    /\ updateLog = {}
    /\ lastOp = NoOp
    /\ searchResult = NoSearch
    /\ pendingUpdate = NoUpdate
    /\ provider = NoProvider
    /\ lastTextTokenUsage = Null
    /\ EditorIdle
    /\ scenes \in ProjectScenes
    /\ agents = [director |-> "idle", dop |-> "idle"]
    /\ batchRunning \in BOOLEAN
    /\ command = NoCommand

\* [start, end] as the range of a reply; either may be missing.
Range(start, end) == Some([start |-> start, end |-> end])

Entities(range, sourceSceneId, targetSceneId) ==
    Some([range |-> range, sourceSceneId |-> sourceSceneId, targetSceneId |-> targetSceneId])

\* The ranges a REGENERATE_RANGE reply may carry.
RangeArgs ==
    {Entities(r, Null, Null) :
        r \in {Null, Range(Some(1), Some(2)), Range(Some(2), Null),
               Range(Some(2), Some(0)), Range(Some(3), Some(1)), Range(Null, Some(2))}}

\* The source and target a MATERIAL_INHERITANCE or SYNC_AND_REGENERATE reply
\* may carry: by number and id, the same scene twice, unknown, missing.
SourceTargetArgs ==
    {Entities(Null, Some("1"), Some("s2")), Entities(Null, Some("s3"), Some("3")),
     Entities(Null, Some("9"), Some("2")), Entities(Null, Some("2"), Null)}

\* The objects a reply to the prompt of recognizeIntent may be: every
\* intent, an unknown one and none, with and without entities.
IntentObjects ==
    {Json(i, Null, Null) :
        i \in {Null, Some("PAUSE_BATCH"), Some("REGENERATE_RANGE"), Some("UPDATE_STYLE"),
               Some("PROD_Q_AND_A"), Some("SYNERGY_DIRECTIVE"),
               Some("MATERIAL_INHERITANCE"), Some("SYNC_AND_REGENERATE"),
               Some("SMALL_TALK")}}
    \cup {Json(Some("REGENERATE_RANGE"), e, Null) : e \in RangeArgs}
    \cup {Json(Some(i), e, Null) :
             i \in {"MATERIAL_INHERITANCE", "SYNC_AND_REGENERATE"}, e \in SourceTargetArgs}
    \cup {Json(Some(i), Entities(Null, Null, Null), Null) :
             i \in {"PAUSE_BATCH", "UPDATE_STYLE", "SYNERGY_DIRECTIVE"}}

\* generateContent rejects, or resolves with one of the texts.
TextOutcomes(texts) ==
    {[kind |-> "error", message |-> "network"]} \cup
    {[kind |-> "response", inlineData |-> Null, text |-> t,
      usageMetadata |-> Some([promptTokenCount |-> 7, candidatesTokenCount |-> 0,
                              totalTokenCount |-> 7])] : t \in texts}

\* The replies to the prompt of recognizeIntent: no text, a text that is not
\* JSON, an object.
IntentReplies ==
    TextOutcomes({Null, Some(PlainText("Sorry?"))} \cup
                 {Some(JsonText(object)) : object \in IntentObjects})

\* The replies to the rewrite prompt of UPDATE_STYLE: no text, no JSON, an
\* object, an array of one to three prompts.
RewriteReplies ==
    TextOutcomes({Null, Some(PlainText("Sorry?")), Some(JsonText(Json(Null, Null, Null)))}
                 \cup {Some(JsonText(Json(Null, Null, Some(SubSeq(
                           <<PlainText("n1"), PlainText("n2"), PlainText("n3")>>, 1, k))))) :
                       k \in 1..3})

\* The replies to the other prompts: no text, or a prompt.
PromptReplies == TextOutcomes({Null, Some(PlainText("n1"))})

\* The tables and the image editor, which the director chat does not touch.
DirectorFrame ==
    UNCHANGED <<dop_prompt_records, dop_model_learnings, auth_users, nextId, updateLog,
                lastOp, searchResult, pendingUpdate, provider, editorVars>>

\* The calls handleCommand makes of the functions it was given.
StopCall == [fn |-> "stopBatchGeneration"]

UpdateCall == [fn |-> "updateStateAndRecord"]

GenerateCall(specificSceneIds) ==
    [fn |-> "handleGenerateAllImages", specificSceneIds |-> specificSceneIds]

\* handleCommand up to the await of recognizeIntent.  The command record
\* keeps the calls the invocation makes of stopBatchGeneration,
\* updateStateAndRecord and handleGenerateAllImages, in their order, and
\* counts those of addProductionLog.
HandleCommand(userApiKey) ==
    /\ command.pc \in {"idle", "done"}
    /\ command.n < MaxCommands
    /\ agents' = AgentsAfter(agents, Some("thinking"), Null)
    /\ command' = [pc |-> "recognize", n |-> command.n + 1, apiKey |-> userApiKey,
                   stateScenes |-> scenes, recognized |-> FALSE, intent |-> Null,
                   scenesToUpdate |-> <<>>, source |-> Null, target |-> Null,
                   logs |-> 0, calls |-> <<>>, thrown |-> FALSE]
    /\ UNCHANGED <<scenes, batchRunning, lastTextTokenUsage>>
    /\ DirectorFrame

\* recognizeIntent settles and the switch runs to its first await or its end.
Recognized(outcome) ==
    /\ command.pc = "recognize"
    /\ LET result == recognizeIntent(command.apiKey, outcome)
           effects == Execute(result, command.stateScenes)
       IN /\ agents' = AgentsAfter(agents, effects.director, effects.dop)
          /\ batchRunning' = IF effects.stop THEN FALSE ELSE batchRunning
          /\ command' = [command EXCEPT
                            !.pc = effects.pc,
                            !.recognized = ~RecognitionThrows(command.apiKey, outcome),
                            !.intent = result.intent,
                            !.scenesToUpdate = effects.scenesToUpdate,
                            !.source = effects.source,
                            !.target = effects.target,
                            !.logs = effects.logs,
                            !.calls = IF effects.stop THEN <<StopCall>>
                                      ELSE IF effects.generate # Null
                                      THEN <<GenerateCall(Val(effects.generate))>>
                                      ELSE <<>>,
                            !.thrown = effects.thrown]
    /\ lastTextTokenUsage' = TokenUsageAfter(command.apiKey, outcome, lastTextTokenUsage)
    /\ UNCHANGED scenes
    /\ DirectorFrame

\* UPDATE_STYLE: the rewrite settles.  The scenes are rewritten if the reply
\* is an array of the length of scenesToUpdate; a throw of callGeminiText or
\* JSON.parse is caught; any other reply ends the case with no further call.
Rewritten(outcome) ==
    /\ command.pc = "rewrite"
    /\ LET rawUpdates == callGeminiText(command.apiKey, outcome)
           newPrompts == JSONParse(rawUpdates.value)
       IN IF rawUpdates.kind = "throw" \/ newPrompts.kind = "throw"
          THEN /\ agents' = AgentsAfter(agents, Some("error"), Null)
               /\ command' = [command EXCEPT !.pc = "done"]
               /\ UNCHANGED scenes
          ELSE IF /\ newPrompts.value.array # Null
                  /\ Len(Val(newPrompts.value.array)) = Len(command.scenesToUpdate)
          THEN /\ scenes' = StyleUpdater(scenes, command.scenesToUpdate,
                                         Val(newPrompts.value.array))
               /\ agents' = AgentsAfter(agents, Some("success"), Null)
               /\ command' = [command EXCEPT !.pc = "done", !.calls = <<UpdateCall>>]
          ELSE /\ command' = [command EXCEPT !.pc = "done"]
               /\ UNCHANGED <<scenes, agents>>
    /\ lastTextTokenUsage' = TokenUsageAfter(command.apiKey, outcome, lastTextTokenUsage)
    /\ UNCHANGED batchRunning
    /\ DirectorFrame

\* SYNERGY_DIRECTIVE: the DOP's reply settles; the catch block sets the
\* status of the DOP alone.
DopReplied(outcome) ==
    /\ command.pc = "dop"
    /\ IF callGeminiText(command.apiKey, outcome).kind = "return"
       THEN /\ agents' = AgentsAfter(agents, Some("success"), Some("success"))
            /\ command' = [command EXCEPT !.pc = "done", !.logs = @ + 1]
       ELSE /\ agents' = AgentsAfter(agents, Null, Some("success"))
            /\ command' = [command EXCEPT !.pc = "done"]
    /\ lastTextTokenUsage' = TokenUsageAfter(command.apiKey, outcome, lastTextTokenUsage)
    /\ UNCHANGED <<scenes, batchRunning>>
    /\ DirectorFrame

\* MATERIAL_INHERITANCE and SYNC_AND_REGENERATE: the rewritten prompt settles;
\* the target scene is updated and handleGenerateAllImages is called and
\* awaited, or the throw is caught.
Extracted(outcome) ==
    /\ command.pc = "extract"
    /\ LET newPrompt == callGeminiText(command.apiKey, outcome)
       IN IF newPrompt.kind = "return"
          THEN /\ scenes' = TargetUpdater(scenes, Val(command.target).id, newPrompt.value)
               /\ agents' = AgentsAfter(agents, Some("speaking"), Null)
               /\ command' = [command EXCEPT
                                 !.pc = "regenerate",
                                 !.logs = IF command.intent = Some("MATERIAL_INHERITANCE")
                                          THEN @ + 1 ELSE @,
                                 !.calls = <<UpdateCall,
                                             GenerateCall(<<Val(command.target).id>>)>>]
          ELSE /\ agents' = AgentsAfter(agents, Some("error"), Null)
               /\ command' = [command EXCEPT !.pc = "done"]
               /\ UNCHANGED scenes
    /\ lastTextTokenUsage' = TokenUsageAfter(command.apiKey, outcome, lastTextTokenUsage)
    /\ UNCHANGED batchRunning
    /\ DirectorFrame

\* The promise of the awaited handleGenerateAllImages settles.
Regenerated(resolved) ==
    /\ command.pc = "regenerate"
    /\ agents' = AgentsAfter(agents, Some(IF resolved THEN "success" ELSE "error"), Null)
    /\ command' = [command EXCEPT !.pc = "done"]
    /\ UNCHANGED <<scenes, batchRunning, lastTextTokenUsage>>
    /\ DirectorFrame

\* The generation gives a scene its image: the batch while it runs, or a
\* call of handleGenerateAllImages that names the scene.
ImageGenerated(i) ==
    /\ scenes[i].generatedImage = Null
    /\ \/ batchRunning
       \/ /\ command.pc \in {"regenerate", "done"}
          /\ \E c \in DOMAIN command.calls :
                /\ command.calls[c].fn = "handleGenerateAllImages"
                /\ \E j \in DOMAIN command.calls[c].specificSceneIds :
                      command.calls[c].specificSceneIds[j] = scenes[i].id
    /\ scenes' = [scenes EXCEPT ![i].generatedImage = Some("img")]
    /\ UNCHANGED <<agents, batchRunning, command, lastTextTokenUsage>>
    /\ DirectorFrame

\* Whatever handleCommand awaits settles.
DirectorSettles ==
    \/ \E outcome \in IntentReplies : Recognized(outcome)
    \/ \E outcome \in RewriteReplies : Rewritten(outcome)
    \/ \E outcome \in PromptReplies : DopReplied(outcome)
    \/ \E outcome \in PromptReplies : Extracted(outcome)
    \/ \E resolved \in BOOLEAN : Regenerated(resolved)

DirectorNext ==
    \/ \E userApiKey \in {<<>>, <<"k">>} : HandleCommand(userApiKey)
    \/ DirectorSettles
    \/ \E i \in 1..3 : ImageGenerated(i)

SpecDirector == DirectorInit /\ [][DirectorNext]_vars /\ WF_vars(DirectorSettles)

(***************************************************************************)
(* The claims about the director chat, checked under SpecDirector.         *)
(***************************************************************************)
\* The scenes that had no generated image when the command was given.
UngeneratedAtCommand ==
    SelectSeq(command.stateScenes, LAMBDA s : s.generatedImage = Null)

\* The array a reply to the rewrite prompt is the JSON text of.
ArrayOf(outcome) == Val(Val(Val(outcome.text).json).array)

\* C22: the update of UPDATE_STYLE leaves alone every scene that has a
\* generated image when the update is applied, also one that had none when
\* the command was given; it changes no field but contextDescription; and a
\* scene it rewrites gets the new prompt at the index the scene has in the
\* list of the scenes that were ungenerated when the command was given.
C22_UpdateStyleRewritesUngenerated ==
    [][\A o \in IF command.pc = "rewrite" THEN RewriteReplies ELSE {} :
          Rewritten(o) =>
             /\ DOMAIN scenes' = DOMAIN scenes
             /\ \A i \in DOMAIN scenes :
                   /\ scenes'[i] = [scenes[i] EXCEPT !.contextDescription =
                                                        scenes'[i].contextDescription]
                   /\ scenes[i].generatedImage # Null => scenes'[i] = scenes[i]
                   /\ scenes'[i] # scenes[i] =>
                         \E k \in DOMAIN UngeneratedAtCommand :
                            /\ UngeneratedAtCommand[k].id = scenes[i].id
                            /\ scenes'[i].contextDescription = Some(ArrayOf(o)[k])]_vars

\* UPDATE_STYLE has rewritten the third scene with the second prompt and has
\* left the second scene alone, which got its image after the command was
\* given.
C22_Witness ==
    /\ command.pc = "done"
    /\ command.intent = Some("UPDATE_STYLE")
    /\ command.calls = <<UpdateCall>>
    /\ command.stateScenes[1].generatedImage # Null
    /\ command.stateScenes[2].generatedImage = Null
    /\ scenes[2].generatedImage # Null
    /\ scenes[2].contextDescription = Some(PlainText("p2"))
    /\ scenes[3].contextDescription = Some(PlainText("n2"))

\* The object a reply to the prompt of recognizeIntent is the JSON text of.
ReplyOf(outcome) == Val(Val(outcome.text).json)

\* A scene of the command's list has the reference as its number or its id.
Found(ref) ==
    /\ ref # Null
    /\ \E i \in DOMAIN command.stateScenes :
          \/ command.stateScenes[i].sceneNumber = Val(ref)
          \/ command.stateScenes[i].id = Val(ref)

\* The reply names a source and a target that are both found.
BothFound(reply) ==
    /\ reply.entities # Null
    /\ Found(Val(reply.entities).sourceSceneId)
    /\ Found(Val(reply.entities).targetSceneId)

\* C23: for MATERIAL_INHERITANCE and SYNC_AND_REGENERATE, when source and
\* target are found and the rewrite succeeds, only the target scene changes
\* (contextDescription replaced, generatedImage null) and
\* handleGenerateAllImages is called with exactly the target's id, after the
\* state update; when one of them is not found or the rewrite fails, no scene
\* changes and no regeneration is triggered.
C23_InheritanceChangesOnlyTarget ==
    [][/\ \A o \in IF command.pc = "recognize" THEN IntentReplies ELSE {} :
             (/\ Recognized(o)
              /\ command'.recognized
              /\ command'.intent \in {Some("MATERIAL_INHERITANCE"),
                                      Some("SYNC_AND_REGENERATE")}) =>
                IF BothFound(ReplyOf(o))
                THEN /\ command'.pc = "extract"
                     /\ scenes' = scenes
                     /\ command'.calls = <<>>
                     /\ command'.target # Null
                     /\ Val(ReplyOf(o).entities).targetSceneId \in
                           {Some(Val(command'.target).id),
                            Some(Val(command'.target).sceneNumber)}
                ELSE /\ command'.pc = "done"
                     /\ scenes' = scenes
                     /\ command'.calls = <<>>
       /\ \A o \in IF command.pc = "extract" THEN PromptReplies ELSE {} :
             Extracted(o) =>
                IF Trim(command.apiKey) # <<>> /\ o.kind = "response"
                THEN /\ \A i \in DOMAIN scenes :
                           scenes'[i] =
                              IF scenes[i].id = Val(command.target).id
                              THEN [scenes[i] EXCEPT !.contextDescription = o.text,
                                                     !.generatedImage = Null]
                              ELSE scenes[i]
                     /\ command'.calls =
                           <<UpdateCall, GenerateCall(<<Val(command.target).id>>)>>
                ELSE /\ scenes' = scenes
                     /\ command'.calls = <<>>
                     /\ command'.pc = "done"]_vars

\* SYNC_AND_REGENERATE has rewritten its target, cleared the image the target
\* had when the command was given, and awaits the regeneration.
C23_Witness ==
    /\ command.pc = "regenerate"
    /\ command.intent = Some("SYNC_AND_REGENERATE")
    /\ \E i \in DOMAIN scenes :
          /\ scenes[i].id = Val(command.target).id
          /\ command.stateScenes[i].generatedImage # Null
          /\ scenes[i].generatedImage = Null
          /\ scenes[i].contextDescription = Some(PlainText("n1"))

\* The ids, in scene order, of the scenes of the command's list whose number
\* lies between start and end.
IdsInRange(start, end) ==
    LET inRange == SelectSeq(command.stateScenes,
                             LAMBDA s : /\ ParseInt(s.sceneNumber) # Null
                                        /\ start # Null
                                        /\ end # Null
                                        /\ Val(start) <= Val(ParseInt(s.sceneNumber))
                                        /\ Val(ParseInt(s.sceneNumber)) <= Val(end))
    IN [i \in 1..Len(inRange) |-> inRange[i].id]

\* The start of the range of a reply, undefined if it has no range.
StartOf(reply) ==
    IF reply.entities = Null \/ Val(reply.entities).range = Null THEN Null
    ELSE Val(Val(reply.entities).range).start

\* The end of the range of a reply, the start if the end is absent.
EndOf(reply) ==
    IF reply.entities = Null \/ Val(reply.entities).range = Null THEN Null
    ELSE IF Val(Val(reply.entities).range).end = Null THEN StartOf(reply)
    ELSE Val(Val(reply.entities).range).end

\* C24: for REGENERATE_RANGE, handleGenerateAllImages is called exactly once,
\* with the ids of exactly the scenes whose number n has start <= n <= end
\* (end being start when absent), in scene order; when no scene is in the
\* range, a missing range included, it is not called and the status of the
\* director becomes 'error'.
C24_RegenerateRangeTargets ==
    [][\A o \in IF command.pc = "recognize" THEN IntentReplies ELSE {} :
          (/\ Recognized(o)
           /\ command'.recognized
           /\ command'.intent = Some("REGENERATE_RANGE")) =>
             IF IdsInRange(StartOf(ReplyOf(o)), EndOf(ReplyOf(o))) # <<>>
             THEN command'.calls =
                     <<GenerateCall(IdsInRange(StartOf(ReplyOf(o)), EndOf(ReplyOf(o))))>>
             ELSE /\ command'.calls = <<>>
                  /\ agents'.director = "error"]_vars

\* What the code does guarantee: C24 for a reply that has entities, with the
\* end of the range being the start when it is absent or 0; and no call at
\* all for a reply without entities, on which handleCommand throws.
RegenerateRangeAsCoded ==
    [][\A o \in IF command.pc = "recognize" THEN IntentReplies ELSE {} :
          (/\ Recognized(o)
           /\ command'.recognized
           /\ command'.intent = Some("REGENERATE_RANGE")) =>
             LET end == IF EndOf(ReplyOf(o)) = Some(0) THEN StartOf(ReplyOf(o))
                        ELSE EndOf(ReplyOf(o))
             IN IF ReplyOf(o).entities = Null
                THEN command'.thrown /\ command'.calls = <<>>
                ELSE IF IdsInRange(StartOf(ReplyOf(o)), end) # <<>>
                THEN /\ command'.calls =
                           <<GenerateCall(IdsInRange(StartOf(ReplyOf(o)), end))>>
                     /\ agents'.director = "success"
                ELSE /\ command'.calls = <<>>
                     /\ agents'.director = "error"]_vars

\* C25: when intent recognition fails (no API key, a provider error, a reply
\* that is not valid JSON), handleCommand falls back to PROD_Q_AND_A: it calls
\* none of stopBatchGeneration, updateStateAndRecord and
\* handleGenerateAllImages, the scenes and the batch generation are as they
\* were, and the command completes without throwing.
C25_FallbackTouchesNothing ==
    [][\A o \in IF command.pc = "recognize" THEN IntentReplies ELSE {} :
          (/\ Recognized(o)
           /\ \/ Trim(command.apiKey) = <<>>
              \/ o.kind = "error"
              \/ o.text = Null
              \/ Val(o.text).json = Null) =>
             /\ command'.intent = Some("PROD_Q_AND_A")
             /\ command'.calls = <<>>
             /\ scenes' = scenes
             /\ batchRunning' = batchRunning
             /\ command'.pc = "done"
             /\ ~command'.thrown
             /\ agents'.director = "success"]_vars

\* A command whose intent was not recognized has completed while the batch
\* generation goes on.
C25_Witness ==
    /\ command.pc = "done"
    /\ ~command.recognized
    /\ command.calls = <<>>
    /\ batchRunning
    /\ agents.director = "success"

\* C26: every handleCommand invocation leaves the director in status
\* 'success' or 'error' in the end, never stuck in 'thinking' or 'speaking',
\* whatever the intent and whether the provider calls succeed, fail or return
\* a rewrite array of the wrong length.  Checked with every awaited promise
\* settling.
C26_DirectorSettled ==
    (agents.director \in {"thinking", "speaking"})
        ~> (agents.director \in {"success", "error"})

(***************************************************************************)
(* The claim about a newly appended record, checked under Spec.            *)
(***************************************************************************)
\* None of the five quality scores of the row is set.
ScoresUnset(row) ==
    /\ row.quality_score = Null
    /\ row.full_body_score = Null
    /\ row.background_score = Null
    /\ row.face_clarity_score = Null
    /\ row.match_score = Null

\* No search of the store, for any query, filter and count, at the lowest
\* threshold, returns the record.
NeverReturned(id) ==
    \A q \in {Vec(3, 4), Vec(4, 3)}, mt \in {Null, Some("gemini"), Some("imagen")},
       mode \in {Null, Some("scene"), Some("character")} :
       \A rows \in search_similar_prompts(dop_prompt_records, q, mt, mode,
                                          MaxRecords, 0) :
          \A i \in DOMAIN rows : rows[i].id # id

\* A counter of the learning row of a model type, 0 while there is no row.
CounterOf(learnings, model_type, counter) ==
    IF LearningRows(learnings, model_type) = {} THEN 0
    ELSE (CHOOSE l \in LearningRows(learnings, model_type) : TRUE)[counter]

\* C30: a newly appended PromptRecord starts with was_approved = false and
\* its five quality scores unset; a record created and not yet evaluated is
\* returned by no search; and an on_record_created update raises the
\* total_generations of the record's model type and no approved_count.
C30_NewRecordUnapproved ==
    /\ [][\A id \in InsertIds :
             (dop_prompt_records[id] = NoRecord /\ dop_prompt_records'[id] # NoRecord)
                => /\ dop_prompt_records'[id].was_approved = Some(FALSE)
                   /\ ScoresUnset(dop_prompt_records'[id])]_vars
    /\ [](\A id \in InsertIds :
             (dop_prompt_records[id] # NoRecord /\ ScoresUnset(dop_prompt_records[id]))
                => /\ dop_prompt_records[id].was_approved = Some(FALSE)
                   /\ NeverReturned(id))
    /\ [][\A id \in InsertIds :
             (~Logged("created", id) /\ \E e \in updateLog' : e.op = "created" /\ e.id = id)
                => /\ CounterOf(dop_model_learnings', dop_prompt_records[id].model_type,
                                "total_generations")
                      = CounterOf(dop_model_learnings, dop_prompt_records[id].model_type,
                                  "total_generations") + 1
                   /\ \A m \in ModelTypes :
                         CounterOf(dop_model_learnings', m, "approved_count")
                            = CounterOf(dop_model_learnings, m, "approved_count")]_vars

\* An unevaluated record has been counted as generated, with no approval
\* counted for its model type, beside an approved record that a search
\* returns.
C30_Witness ==
    \E id \in InsertIds, other \in InsertIds :
       /\ dop_prompt_records[id] # NoRecord
       /\ ScoresUnset(dop_prompt_records[id])
       /\ Logged("created", id)
       /\ CounterOf(dop_model_learnings, dop_prompt_records[id].model_type,
                    "total_generations") >= 1
       /\ CounterOf(dop_model_learnings, dop_prompt_records[id].model_type,
                    "approved_count") = 0
       /\ dop_prompt_records[other] # NoRecord
       /\ ~NeverReturned(other)
====
